---- MODULE Spec2Model ----
(***************************************************************************)
(* Delivery-reliability test harness for tmux sessions.                    *)
(*                                                                         *)
(*   tests/performance/test_send_enter.py        TmuxClaudeMessageTester   *)
(*   tests/performance/stress_test_send_enter.py TmuxClaudeStressTester    *)
(*                                                                         *)
(* Text is a sequence of characters, each a tuple: <<"nl">> is the         *)
(* newline, <<"a">> a letter, and a message the harness generates, one    *)
(* line made unique by a uuid, is a single character                      *)
(* <<prefix, ..., index, uuid>>.  Time is counted in ticks of 0.1 s.       *)
(***************************************************************************)
EXTENDS Integers, Sequences, FiniteSets, TLC

VARIABLES
    \* ---- the target tmux session (external collaborator) ----
    sessionUp,        \* the named session exists
    pane,             \* visible pane content, what capture-pane -p prints
    pending,          \* texts typed into the session, not yet displayed
    buffer,           \* the tmux paste buffer
    \* ---- the environment's budget ----
    faultsLeft,       \* disturbances still allowed: a driver call that is slow
                      \* or exceeds its timeout, typed text displayed late or
                      \* never, output the target prints of its own, the session
                      \* being killed
    \* ---- TmuxClaudeMessageTester ----
    pc,               \* position of the tester
    strategy,         \* strategy.name of the running run_strategy_test
    iterations,       \* parameter of run_strategy_test
    i,                \* loop index of run_strategy_test
    test_message,     \* parameter of send_test_message
    step,             \* next step of strategy.implementation
    baseline_output,  \* local of send_test_message
    polls,            \* iterations of the polling loop begun
    elapsed,          \* time.time() - start_time
    ret,              \* the TestResult send_test_message returned
    test_results,     \* self.test_results
    exc,              \* the exception that ended the run, "" when none
    \* ---- TmuxClaudeStressTester ----
    results,          \* self.results
    plan,             \* the scenario calls of main() still to be made
    test_name,        \* test_name of the running scenario
    num_messages,     \* parameter of the running scenario
    message,          \* parameter of send_message_with_strategy
    successful,       \* local of the running scenario
    failed,           \* local of the running scenario
    errors,           \* local of the running scenario
    total_time,       \* time.time() - start_time of the running scenario
    report,           \* what generate_stress_report returned
    received,         \* what the last send_message_with_strategy returned
    futures,          \* the lanes of the running concurrent_test
    messages_per_thread, \* parameter of concurrent_test
    \* ---- history of the stress run ----
    causes,           \* why each failed attempt of the scenario failed
    resolved,         \* attempts of the run that have returned an outcome
    interrupted,      \* KeyboardInterrupt was raised
    \* ---- main() of test_send_enter.py ----
    strategies,       \* the strategies main() has still to test
    reports,          \* the values returned by direct calls of generate_report and
                      \* generate_stress_report, in order
    name_order,       \* the order in which this process iterates a set of strategy
                      \* names; the hash seed fixes it at start-up
    \* ---- history of the run ----
    invoked,          \* the payloads passed to a strategy invocation, in order
    \* ---- history of the current attempt ----
    typed,            \* texts the session has received from send calls
    sendLog,          \* the strategy's driver calls, in order
    captures,         \* capture-pane calls made by the polling loop
    pollFailed,       \* a capture-pane call of the polling loop has failed
    polledAfterFail,  \* the polling loop captured again after a failed capture
    goodPoll          \* some poll capture contained the message and differed from baseline

envVars    == <<sessionUp, pane, pending, buffer>>
budgetVars == <<faultsLeft>>
testerVars == <<pc, strategy, iterations, i, test_message, step,
                baseline_output, polls, elapsed, ret, test_results, exc>>
histVars   == <<typed, sendLog, captures, pollFailed, polledAfterFail, goodPoll>>
stressVars == <<results, plan, test_name, num_messages, message, successful, failed,
                errors, total_time, report, causes, resolved, interrupted, received,
                futures, messages_per_thread>>
mainVars   == <<strategies, reports, name_order>>
vars       == <<envVars, budgetVars, testerVars, histVars, stressVars, mainVars, invoked>>

----------------------------------------------------------------------------
(* Bounds of the model *)

MaxIterations == 2   \* largest iterations argument of run_strategy_test
MaxPane       == 3   \* characters visible in the pane
MaxPayloadLen == 2   \* longest test_message of a direct send_test_message call
MaxCallTime   == 1   \* duration of a slow, successful driver call
MaxFaults     == 2   \* disturbances of the environment per run of the message tester
MaxStressFaults == 1 \* disturbances of the environment per run of the stress tester
MaxMessages   == 2   \* largest num_messages argument of a stress scenario
MaxThreads    == 2   \* largest num_threads argument of concurrent_test
MainIterations == 1  \* the iterations argument main() passes to run_strategy_test
MaxReports    == 2   \* direct calls of a report method per run
MaxRecorded   == 2   \* results recorded before a direct call of a report method
ManyMessages  == 6   \* num_messages of a scenario that can fail more than KeepErrors times
MaxLargeLen   == 3   \* characters of the longest message of the large-message tester
MaxChunk      == 3   \* largest chunk_size of a direct strategy_chunked_sending call
ChunkA        == 2   \* chunk size of "chunked_500", on the scale of MaxLargeLen
ChunkB        == 1   \* chunk size of "chunked_200", on the scale of MaxLargeLen
MinOutput     == 1   \* the 50 characters of "len(result.stdout.strip()) > 50", on that scale

(* Program constants, in ticks of 0.1 s *)

MaxWait        == 100  \* max_wait = 10
CheckInterval  == 5    \* check_interval = 0.5
DriverTimeout  == 50   \* timeout=5 of every subprocess.run
EnterDelay     == 5    \* time.sleep(0.5) of enter_delay_enter
SeparateDelay  == 1    \* time.sleep(0.1) of separate_commands_strategy
VerifyDelay    == 10   \* time.sleep(1) of send_message_with_strategy
RapidPause     == 1    \* time.sleep(0.1) of rapid_fire_test
LongPause      == 20   \* time.sleep(2) of long_message_test
BusyPause      == 5    \* time.sleep(0.5) of busy_claude_test
LoadPause      == 10   \* time.sleep(1) of system_load_test
LoadDuration   == 300  \* the 30 seconds cpu_load runs
LoadMessages   == 15   \* the default num_messages of system_load_test
ThreadPause    == 2    \* time.sleep(0.2) of send_messages_thread
ChunkDelay        == 2   \* time.sleep(0.2) between chunks
LargeVerifyDelay  == 20  \* time.sleep(2) before the capture
SingleVerifyDelay == 30  \* time.sleep(3) before the capture
PingDelay         == 10  \* time.sleep(1) after the ping
KeepErrors     == 5    \* errors[:5] of rapid_fire_test

NumPolls == MaxWait \div CheckInterval   \* int(max_wait / check_interval)

----------------------------------------------------------------------------
(* Text *)

NL == <<"nl">>

\* python: sub in s
Contains(s, sub) ==
    \E k \in 1..(Len(s) - Len(sub) + 1) : SubSeq(s, k, k + Len(sub) - 1) = sub

\* python: s.split('\n')
RECURSIVE Split(_)
Split(s) ==
    IF \A k \in 1..Len(s) : s[k] # NL
    THEN <<s>>
    ELSE LET n == CHOOSE k \in 1..Len(s) :
                      s[k] = NL /\ \A j \in 1..(k - 1) : s[j] # NL
         IN  <<SubSeq(s, 1, n - 1)>> \o Split(SubSeq(s, n + 1, Len(s)))

\* the last MaxPane characters: the pane shows a window of the output
Window(s) == IF Len(s) <= MaxPane THEN s ELSE SubSeq(s, Len(s) - MaxPane + 1, Len(s))

Min(a, b) == IF a < b THEN a ELSE b

\* all texts over alphabet A of length lo..hi
Texts(A, lo, hi) == UNION {[1..n -> A] : n \in lo..hi}

----------------------------------------------------------------------------
(* Strategy implementations: the ordered driver calls and sleeps of each   *)
(* strategy function.  A step is a tmux command (op, the text argument,    *)
(* the key arguments) or a sleep of d ticks.                               *)

Cmd(op, text, keys) == [op |-> op, text |-> text, keys |-> keys, d |-> 0]
Sleep(d)            == [op |-> "sleep", text |-> <<>>, keys |-> <<>>, d |-> d]

single_enter(msg) == <<Cmd("send-keys", msg, <<"Enter">>)>>

\* a double_enter that presses Enter once
double_enter_once(msg) == <<Cmd("send-keys", msg, <<"Enter">>)>>

double_enter(msg) == <<Cmd("send-keys", msg, <<"Enter", "Enter">>)>>

triple_enter(msg) == <<Cmd("send-keys", msg, <<"Enter", "Enter", "Enter">>)>>

enter_delay_enter(msg) ==
    <<Cmd("send-keys", msg, <<"Enter">>),
      Sleep(EnterDelay),
      Cmd("send-keys", <<>>, <<"Enter">>)>>

c_return_strategy(msg) == <<Cmd("send-keys", msg, <<"C-m">>)>>

separate_commands_strategy(msg) ==
    <<Cmd("send-keys", msg, <<>>),
      Sleep(SeparateDelay),
      Cmd("send-keys", <<>>, <<"Enter">>)>>

paste_mode_strategy(msg) ==
    <<Cmd("set-buffer", msg, <<>>),
      Cmd("paste-buffer", <<>>, <<>>),
      Cmd("send-keys", <<>>, <<"Enter">>)>>

\* the strategies list of main()
Registry == {"single_enter", "double_enter", "triple_enter", "enter_delay_enter",
             "c_return", "separate_commands", "paste_mode"}

\* TestStrategy.implementation(session, message)
Implementation(name, msg) ==
    CASE name = "single_enter"      -> single_enter(msg)
      [] name = "double_enter"      -> double_enter(msg)
      [] name = "triple_enter"      -> triple_enter(msg)
      [] name = "enter_delay_enter" -> enter_delay_enter(msg)
      [] name = "c_return"          -> c_return_strategy(msg)
      [] name = "separate_commands" -> separate_commands_strategy(msg)
      [] name = "paste_mode"        -> paste_mode_strategy(msg)

----------------------------------------------------------------------------
(* The session driver: subprocess.run(["tmux", ...], timeout=5) without    *)
(* check=True.  A call ends in one of three ways:                          *)
(*   "ok"      exit status 0, the command took effect                      *)
(*   "rc1"     non-zero exit status (the session does not exist); nothing  *)
(*             is raised, nothing took effect                              *)
(*   "timeout" the call ran DriverTimeout ticks and raised TimeoutExpired; *)
(*             the killed command may or may not have taken effect         *)
(* Text a command types into the session is displayed at once ("shown"),   *)
(* displayed later ("delayed"), or never ("lost").  Every way but the      *)
(* prompt, successful one is a disturbance and uses up the budget.         *)

NeedsSession(op) == op \in {"send-keys", "paste-buffer", "capture-pane"}

\* the text command c types into the session when it takes effect
TextTyped(c) ==
    CASE c.op = "send-keys"    -> c.text
      [] c.op = "paste-buffer" -> buffer
      [] OTHER                 -> <<>>

Outcome(rc, dur, effect) == [rc |-> rc, dur |-> dur, effect |-> effect]

\* the ways a call of command c can end now
CallOutcomes(c) ==
    IF NeedsSession(c.op) /\ ~sessionUp
    THEN {Outcome("rc1", 0, "none")}
         \cup (IF faultsLeft > 0 THEN {Outcome("timeout", DriverTimeout, "none")} ELSE {})
    ELSE {Outcome("ok", 0, "shown")}
         \cup (IF faultsLeft > 0
                 THEN {Outcome("ok", MaxCallTime, "shown"),
                       Outcome("timeout", DriverTimeout, "shown"),
                       Outcome("timeout", DriverTimeout, "none")}
                 ELSE {})
         \cup (IF faultsLeft > 0 /\ TextTyped(c) # <<>>
                 THEN {Outcome("ok", 0, "delayed"), Outcome("ok", 0, "lost")}
                 ELSE {})

\* the text of command c, ending as o, that has reached the target
Landed(c, o) == IF o.effect \in {"shown", "delayed"} THEN TextTyped(c) ELSE <<>>

Disturbed(o) == o.rc = "timeout" \/ o.dur > 0 \/ o.effect \in {"delayed", "lost"}

\* the budget after a call that ended as o
Spend(o) == faultsLeft' = IF Disturbed(o) THEN faultsLeft - 1 ELSE faultsLeft

\* the effect on the tmux server of command c ending as o
Effect(c, o) ==
    LET text == IF o.effect = "none" THEN <<>> ELSE TextTyped(c) IN
    /\ pane'    = IF o.effect = "shown" THEN Window(pane \o text) ELSE pane
    /\ pending' = IF o.effect = "delayed" THEN Append(pending, text) ELSE pending
    /\ typed'   = IF text # <<>> THEN typed \cup {text} ELSE typed
    /\ buffer'  = IF c.op \in {"set-buffer", "load-buffer"} /\ o.effect # "none"
                  THEN c.text ELSE buffer
    /\ UNCHANGED sessionUp

CapturePane == Cmd("capture-pane", <<>>, <<>>)

\* text of the exception message in "Error capturing: {e}"
ErrText == <<<<"E">>>>

\* capture_tmux_output(): result.stdout when the exit status is 0, "" when it
\* is not, "Error capturing: ..." when subprocess.run raised
capture_tmux_output(o) ==
    CASE o.rc = "ok"      -> pane
      [] o.rc = "rc1"     -> <<>>
      [] o.rc = "timeout" -> ErrText

----------------------------------------------------------------------------
(* The target session *)

\* the target displays the oldest delayed text
Echo ==
    /\ sessionUp /\ pending # <<>>
    /\ pane' = Window(pane \o Head(pending))
    /\ pending' = Tail(pending)
    /\ UNCHANGED <<sessionUp, buffer, budgetVars, testerVars, histVars, stressVars>>
    /\ UNCHANGED <<mainVars, invoked>>

\* the target prints output of its own
Noise ==
    /\ sessionUp
    /\ faultsLeft > 0
    /\ faultsLeft' = faultsLeft - 1
    /\ pane' = Window(Append(pane, <<"x">>))
    /\ UNCHANGED <<sessionUp, pending, buffer, testerVars, histVars, stressVars>>
    /\ UNCHANGED <<mainVars, invoked>>

\* the session is killed
Vanish ==
    /\ sessionUp
    /\ faultsLeft > 0
    /\ faultsLeft' = faultsLeft - 1
    /\ sessionUp' = FALSE
    /\ pane' = <<>>
    /\ pending' = <<>>
    /\ UNCHANGED <<buffer, testerVars, histVars, stressVars>>
    /\ UNCHANGED <<mainVars, invoked>>

Session == Echo \/ Noise \/ Vanish

----------------------------------------------------------------------------
(* TmuxClaudeMessageTester *)

NoResult == [strategy_name |-> "", test_id |-> 0, message_sent |-> <<>>,
             success |-> FALSE, response_time |-> 0, error |-> ""]

\* the two uuid4() values of the attempt made after k results have been
\* recorded: the one in the message, line 110, and test_id, line 47. Every
\* call of uuid4() returns a value no other call returns
MessageUuid(k) == 2 * k
TestId(k) == 2 * k + 1

\* a result that carries an error text whenever the message was not seen
TestResultFailureText(success, response_time, error) ==
    [strategy_name |-> strategy, test_id |-> TestId(Len(test_results)),
     message_sent |-> test_message,
     success |-> success, response_time |-> response_time,
     error |-> IF success THEN "" ELSE "NotDelivered"]

\* the TestResult built at lines 81-88 and 91-99
TestResult(success, response_time, error) ==
    [strategy_name |-> strategy, test_id |-> TestId(Len(test_results)),
     message_sent |-> test_message,
     success |-> success, response_time |-> response_time, error |-> error]

\* a polling loop that never breaks
PollHitNever(msg, current_output, baseline) == FALSE

\* line 68: the capture shows the message and is not the baseline
PollHit(msg, current_output, baseline) ==
    Contains(current_output, msg) /\ current_output # baseline

\* lines 70-76: some line of the capture contains the message
LineHit(msg, current_output) ==
    \E k \in 1..Len(Split(current_output)) : Contains(Split(current_output)[k], msg)

\* line 110, f"TEST_MSG_{strategy.name}_{i}_{uuid}: ...": one line; uuid is
\* the fresh uuid4 of the call
GeneratedMessage(name, n, uuid) == <<<<"TEST_MSG", name, n, uuid>>>>

\* send_test_message, lines 47-51: start_time and the baseline capture
Baseline ==
    /\ pc = "call"
    /\ \E o \in CallOutcomes(CapturePane) :
          /\ baseline_output' = capture_tmux_output(o)
          /\ elapsed' = o.dur
          /\ Spend(o)
    /\ pc' = "strategy"
    /\ step' = 1
    /\ polls' = 0
    /\ sendLog' = <<>>
    /\ captures' = 0
    /\ pollFailed' = FALSE
    /\ polledAfterFail' = FALSE
    /\ goodPoll' = FALSE
    /\ UNCHANGED <<envVars, typed, strategy, iterations, i, test_message, ret,
                   test_results, exc>>
    /\ UNCHANGED stressVars
    /\ invoked' = Append(invoked, test_message)
    /\ UNCHANGED mainVars

\* a harness that starts to poll after the first step of the strategy
AdvanceEarly == pc' = "poll" /\ step' = step

\* after step `step` of the strategy: to the next step or to the polling loop
Advance ==
    IF step = Len(Implementation(strategy, test_message))
    THEN pc' = "poll" /\ step' = step
    ELSE pc' = "strategy" /\ step' = step + 1

\* line 55, one time.sleep of strategy.implementation
StrategySleep ==
    /\ pc = "strategy"
    /\ LET c == Implementation(strategy, test_message)[step] IN
          /\ c.op = "sleep"
          /\ elapsed' = elapsed + c.d
    /\ Advance
    /\ UNCHANGED <<envVars, budgetVars, histVars, strategy, iterations, i,
                   test_message, baseline_output, polls, ret, test_results, exc>>
    /\ UNCHANGED stressVars
    /\ UNCHANGED <<mainVars, invoked>>

\* a strategy call that itself records the attempt when the driver times out
StrategyCallRecording ==
    /\ pc = "strategy"
    /\ LET c == Implementation(strategy, test_message)[step] IN
          /\ c.op # "sleep"
          /\ \E o \in CallOutcomes(c) :
                /\ Effect(c, o)
                /\ Spend(o)
                /\ sendLog' = Append(sendLog, [op |-> c.op, text |-> c.text, landed |-> Landed(c, o),
                                               keys |-> c.keys, rc |-> o.rc])
                /\ IF o.rc = "timeout"
                   THEN /\ ret' = TestResult(FALSE, elapsed + o.dur, "TimeoutExpired")
                        /\ test_results' = Append(test_results, ret')
                        /\ pc' = "returned"
                        /\ UNCHANGED <<step, elapsed>>
                   ELSE /\ elapsed' = elapsed + o.dur
                        /\ Advance
                        /\ ret' = ret
                        /\ test_results' = test_results
    /\ UNCHANGED <<captures, pollFailed, polledAfterFail, goodPoll, strategy, iterations, i,
                   test_message, baseline_output, polls, exc>>
    /\ UNCHANGED stressVars
    /\ UNCHANGED <<mainVars, invoked>>

\* line 55, one subprocess.run of strategy.implementation; lines 90-99 when
\* it raises
StrategyCall ==
    /\ pc = "strategy"
    /\ LET c == Implementation(strategy, test_message)[step] IN
          /\ c.op # "sleep"
          /\ \E o \in CallOutcomes(c) :
                /\ Effect(c, o)
                /\ Spend(o)
                /\ sendLog' = Append(sendLog, [op |-> c.op, text |-> c.text, landed |-> Landed(c, o),
                                               keys |-> c.keys, rc |-> o.rc])
                /\ IF o.rc = "timeout"
                   THEN /\ ret' = TestResult(FALSE, elapsed + o.dur, "TimeoutExpired")
                        /\ pc' = "returned"
                        /\ UNCHANGED <<step, elapsed>>
                   ELSE /\ elapsed' = elapsed + o.dur
                        /\ Advance
                        /\ ret' = ret
    /\ UNCHANGED <<captures, pollFailed, polledAfterFail, goodPoll, strategy, iterations, i,
                   test_message, baseline_output, polls, test_results, exc>>
    /\ UNCHANGED stressVars
    /\ UNCHANGED <<mainVars, invoked>>

\* lines 63-88, one iteration of the polling loop: sleep, capture, check;
\* the result is built when the loop ends
Poll ==
    /\ pc = "poll"
    /\ \E o \in CallOutcomes(CapturePane) :
          LET current_output == capture_tmux_output(o)
              now == elapsed + CheckInterval + o.dur
              hit == PollHit(test_message, current_output, baseline_output)
          IN  /\ Spend(o)
              /\ captures' = captures + 1
              /\ pollFailed' = (pollFailed \/ o.rc # "ok")
              /\ polledAfterFail' = (polledAfterFail \/ pollFailed)
              /\ goodPoll' = (goodPoll \/ (/\ Contains(current_output, test_message)
                                            /\ current_output # baseline_output))
              /\ elapsed' = now
              /\ polls' = polls + 1
              /\ IF hit
                 THEN /\ ret' = TestResult(LineHit(test_message, current_output), now, "")
                      /\ pc' = "returned"
                 ELSE IF polls + 1 = NumPolls
                 THEN /\ ret' = TestResult(FALSE, now, "")
                      /\ pc' = "returned"
                 ELSE /\ ret' = ret
                      /\ pc' = "poll"
    /\ UNCHANGED <<envVars, typed, sendLog, strategy, iterations, i, test_message,
                   step, baseline_output, test_results, exc>>
    /\ UNCHANGED stressVars
    /\ UNCHANGED <<mainVars, invoked>>

send_test_message == Baseline \/ StrategySleep \/ StrategyCall \/ Poll

\* run_strategy_test, lines 109-113: the next iteration generates its message
\* and calls send_test_message
Iterate ==
    /\ pc = "loop"
    /\ i < iterations
    /\ test_message' = GeneratedMessage(strategy, i, MessageUuid(Len(test_results)))
    /\ pc' = "call"
    /\ UNCHANGED <<envVars, budgetVars, histVars, strategy, iterations, i, step,
                   baseline_output, polls, elapsed, ret, test_results, exc>>
    /\ UNCHANGED stressVars
    /\ UNCHANGED <<mainVars, invoked>>

\* a loop that sends the message of a failed attempt once more instead of
\* recording the failure
RecordRetry ==
    /\ pc = "returned"
    /\ test_results' = IF ret.success THEN Append(test_results, ret) ELSE test_results
    /\ i' = IF ret.success THEN i + 1 ELSE i
    /\ pc' = IF ret.success THEN "loop" ELSE "call"
    /\ UNCHANGED <<envVars, budgetVars, histVars, strategy, iterations, test_message,
                   step, baseline_output, polls, elapsed, ret, exc>>
    /\ UNCHANGED stressVars
    /\ UNCHANGED <<mainVars, invoked>>

\* a run that an attempt with an error ends
RecordAbort ==
    /\ pc = "returned"
    /\ test_results' = Append(test_results, ret)
    /\ i' = i + 1
    /\ pc' = IF ret.error # "" THEN "raised" ELSE "loop"
    /\ UNCHANGED <<envVars, budgetVars, histVars, strategy, iterations, test_message,
                   step, baseline_output, polls, elapsed, ret, exc>>
    /\ UNCHANGED stressVars
    /\ UNCHANGED <<mainVars, invoked>>

\* run_strategy_test, lines 113-118: the result is recorded
Record ==
    /\ pc = "returned"
    /\ test_results' = Append(test_results, ret)
    /\ i' = i + 1
    /\ pc' = "loop"
    /\ UNCHANGED <<envVars, budgetVars, histVars, strategy, iterations, test_message,
                   step, baseline_output, polls, elapsed, ret, exc>>
    /\ UNCHANGED stressVars
    /\ UNCHANGED <<mainVars, invoked>>

\* run_strategy_test, lines 120-128: the statistics after the loop;
\* success_count / iterations raises ZeroDivisionError when iterations = 0
Summarise ==
    /\ pc = "loop"
    /\ i = iterations
    /\ IF iterations = 0
       THEN pc' = "raised" /\ exc' = "ZeroDivisionError"
       ELSE pc' = "done" /\ exc' = exc
    /\ UNCHANGED <<envVars, budgetVars, histVars, strategy, iterations, i, test_message,
                   step, baseline_output, polls, elapsed, ret, test_results>>
    /\ UNCHANGED stressVars
    /\ UNCHANGED <<mainVars, invoked>>

run_strategy_test == Iterate \/ Record \/ Summarise

----------------------------------------------------------------------------
(* TmuxClaudeStressTester *)

\* a send that presses the keys of single_enter without typing the message
StressImplementationBare(name, msg) ==
    CASE name = "single_enter"      -> <<Cmd("send-keys", <<>>, <<"Enter">>)>>
      [] name = "double_enter"      -> <<Cmd("send-keys", msg, <<"Enter", "Enter">>)>>
      [] name = "enter_delay_enter" -> <<Cmd("send-keys", msg, <<"Enter">>),
                                         Sleep(EnterDelay),
                                         Cmd("send-keys", <<>>, <<"Enter">>)>>
      [] name = "separate_commands" -> <<Cmd("send-keys", msg, <<>>),
                                         Sleep(SeparateDelay),
                                         Cmd("send-keys", <<>>, <<"Enter">>)>>
      [] OTHER                      -> <<>>

\* a send that treats a name it does not know as single_enter
StressImplementationDefault(name, msg) ==
    CASE name = "double_enter"      -> <<Cmd("send-keys", msg, <<"Enter", "Enter">>)>>
      [] name = "enter_delay_enter" -> <<Cmd("send-keys", msg, <<"Enter">>),
                                         Sleep(EnterDelay),
                                         Cmd("send-keys", <<>>, <<"Enter">>)>>
      [] name = "separate_commands" -> <<Cmd("send-keys", msg, <<>>),
                                         Sleep(SeparateDelay),
                                         Cmd("send-keys", <<>>, <<"Enter">>)>>
      [] OTHER                      -> <<Cmd("send-keys", msg, <<"Enter">>)>>

\* the strategy names of lines 35, 37, 39 and 43
KnownStrategies == {"single_enter", "double_enter", "enter_delay_enter", "separate_commands"}

\* send_message_with_strategy, lines 35-46: the commands of the four strategy
\* names it knows; for any other name nothing is sent
StressImplementation(name, msg) ==
    CASE name = "single_enter"      -> <<Cmd("send-keys", msg, <<"Enter">>)>>
      [] name = "double_enter"      -> <<Cmd("send-keys", msg, <<"Enter", "Enter">>)>>
      [] name = "enter_delay_enter" -> <<Cmd("send-keys", msg, <<"Enter">>),
                                         Sleep(EnterDelay),
                                         Cmd("send-keys", <<>>, <<"Enter">>)>>
      [] name = "separate_commands" -> <<Cmd("send-keys", msg, <<>>),
                                         Sleep(SeparateDelay),
                                         Cmd("send-keys", <<>>, <<"Enter">>)>>
      [] OTHER                      -> <<>>

\* the scenario calls of main(), lines 343-354, in order, their count
\* arguments drawn from Counts and the number of threads from Threads
ScenarioCalls(Counts, Threads) ==
    <<[test |-> "rapid_fire", strategy |-> "single_enter",
       counts |-> Counts, threads |-> {1}],
      [test |-> "rapid_fire", strategy |-> "double_enter",
       counts |-> Counts, threads |-> {1}],
      [test |-> "concurrent_sending", strategy |-> "double_enter",
       counts |-> Counts, threads |-> Threads],
      [test |-> "long_messages", strategy |-> "separate_commands",
       counts |-> Counts, threads |-> {1}]>>

\* the scenario methods called in the order of main() with any arguments,
\* zero included
MainPlan == ScenarioCalls(0..MaxMessages, 0..MaxThreads)

\* the scenario methods as main() calls them: every count is a positive
\* literal (15, 15, 3 and 4, 5)
MainCalls == ScenarioCalls(1..MaxMessages, 1..MaxThreads)

\* a message that does not carry the uuid
StressMessageNoUuid(test, n, uuid) ==
    <<<<(IF test = "rapid_fire" THEN "RAPID" ELSE "LONG"), n, 0>>>>

\* the message of iteration n, f"RAPID_{i}_{uuid}: ..." at line 68 and
\* f"LONG_{i}_{uuid}: ..." at line 152: one text. uuid4() is fresh at each
\* call; the model gives the messages of the k-th scenario the uuid k
StressMessage(test, n, uuid) ==
    <<<<(CASE test = "rapid_fire"  -> "RAPID"
           [] test = "busy_claude" -> "WHILE_BUSY"
           [] test = "system_load" -> "LOAD"
           [] OTHER                -> "LONG"), n, uuid>>>>

\* the busy task of line 187, f"BUSY_TASK_{uuid}: ...": one line
BusyTask(uuid) == <<<<"BUSY_TASK", uuid>>>>

\* the pause after each message: lines 80, 164, 212 and 264
Pause(test) ==
    CASE test = "rapid_fire"  -> RapidPause
      [] test = "busy_claude" -> BusyPause
      [] test = "system_load" -> LoadPause
      [] OTHER                -> LongPause

\* total_time of line 269 after load_thread.join() of line 267: the join
\* returns when cpu_load, started with the scenario, has run LoadDuration
JoinedTime(test, time) ==
    IF test = "system_load" /\ time < LoadDuration THEN LoadDuration ELSE time

\* the errors a scenario stores: errors[:5] at line 92, errors at line 176
StoredErrors(test, errs) ==
    IF test = "rapid_fire" THEN SubSeq(errs, 1, IF Len(errs) < KeepErrors THEN Len(errs) ELSE KeepErrors)
    ELSE errs

\* successful / num_messages * 100 and total_time / num_messages, as exact
\* fractions; the division is defined for den # 0 only
Fraction(num, den) == [num |-> num, den |-> den]

\* lines 85-93 and 169-177
StressTestResult(test, strat, n, ok, bad, errs, time) ==
    [test_name |-> IF test = "rapid_fire" THEN <<test, strat>> ELSE <<test>>,
     total_messages |-> n,
     successful_messages |-> ok,
     failed_messages |-> bad,
     success_rate |-> Fraction(ok * 100, n),
     avg_response_time |-> Fraction(time, n),
     errors |-> StoredErrors(test, errs)]

FracLess(a, b) == a.num * b.den < b.num * a.den

\* min(rs, key=lambda x: x.success_rate): the first entry of least rate
Worst(rs) ==
    rs[CHOOSE k \in 1..Len(rs) :
          /\ \A j \in 1..Len(rs) : ~FracLess(rs[j].success_rate, rs[k].success_rate)
          /\ \A j \in 1..(k - 1) : FracLess(rs[k].success_rate, rs[j].success_rate)]

\* max(rs, key=lambda x: x.success_rate): the first entry of greatest rate
Best(rs) ==
    rs[CHOOSE k \in 1..Len(rs) :
          /\ \A j \in 1..Len(rs) : ~FracLess(rs[k].success_rate, rs[j].success_rate)
          /\ \A j \in 1..(k - 1) : FracLess(rs[j].success_rate, rs[k].success_rate)]

RECURSIVE Sum(_, _)
Sum(rs, field) == IF rs = <<>> THEN 0 ELSE Head(rs)[field] + Sum(Tail(rs), field)

None == <<"None">>

NoReport == [tests_run |-> 0 - 1]

\* a report that divides by the number of messages without looking at it
generate_stress_report_unguarded(rs) ==
    [total_messages |-> Sum(rs, "total_messages"),
     total_successful |-> Sum(rs, "successful_messages"),
     overall_success_rate |->
         Fraction(Sum(rs, "successful_messages") * 100, Sum(rs, "total_messages")),
     tests_run |-> Len(rs),
     worst_performing_test |-> IF rs # <<>> THEN Worst(rs).test_name ELSE None,
     best_performing_test |-> IF rs # <<>> THEN Best(rs).test_name ELSE None,
     detailed_results |-> [k \in 1..Len(rs) |->
         [test_name |-> rs[k].test_name, success_rate |-> rs[k].success_rate,
          total_messages |-> rs[k].total_messages, errors |-> rs[k].errors]]]

\* generate_stress_report, lines 286-319
generate_stress_report(rs) ==
    [total_messages |-> Sum(rs, "total_messages"),
     total_successful |-> Sum(rs, "successful_messages"),
     overall_success_rate |->
         IF Sum(rs, "total_messages") > 0
         THEN Fraction(Sum(rs, "successful_messages") * 100, Sum(rs, "total_messages"))
         ELSE Fraction(0, 1),
     tests_run |-> Len(rs),
     worst_performing_test |-> IF rs # <<>> THEN Worst(rs).test_name ELSE None,
     best_performing_test |-> IF rs # <<>> THEN Best(rs).test_name ELSE None,
     detailed_results |-> [k \in 1..Len(rs) |->
         [test_name |-> rs[k].test_name, success_rate |-> rs[k].success_rate,
          total_messages |-> rs[k].total_messages, errors |-> rs[k].errors]]]

\* main(), lines 343-354: the next scenario is called; rapid_fire_test lines
\* 62-65, long_message_test lines 144-147. num_messages is the parameter of
\* the scenario method, drawn from the counts of the call
CallScenario ==
    /\ pc = "main"
    /\ plan # <<>>
    /\ Head(plan).test \notin {"concurrent_sending", "busy_claude"}
    /\ \E n \in Head(plan).counts : num_messages' = n
    /\ test_name' = Head(plan).test
    /\ strategy' = Head(plan).strategy
    /\ plan' = Tail(plan)
    /\ successful' = 0
    /\ failed' = 0
    /\ errors' = <<>>
    /\ causes' = <<>>
    /\ total_time' = 0
    /\ i' = 0
    /\ pc' = "s_loop"
    /\ UNCHANGED <<envVars, budgetVars, histVars, results, message, report, resolved,
                   interrupted, iterations, test_message, step, baseline_output, polls,
                   elapsed, ret, test_results, exc>>
    /\ UNCHANGED <<received, futures, messages_per_thread>>
    /\ UNCHANGED <<mainVars, invoked>>

\* a loop that generates and sends its next message while the one before it
\* still waits for its capture
NextMessageEarly ==
    /\ pc \in {"s_loop", "s_verify"}
    /\ i < num_messages
    /\ message' = StressMessage(test_name, i, Len(results))
    /\ step' = 1
    /\ sendLog' = <<>>
    /\ pc' = IF StressImplementation(strategy, message') = <<>> THEN "s_verify" ELSE "s_send"
    /\ UNCHANGED <<envVars, budgetVars, typed, captures, pollFailed, polledAfterFail,
                   goodPoll, results, plan, test_name, num_messages, successful, failed,
                   errors, total_time, report, causes, resolved, interrupted, strategy,
                   iterations, i, test_message, baseline_output, polls, elapsed, ret,
                   test_results, exc>>
    /\ UNCHANGED <<received, futures, messages_per_thread>>
    /\ invoked' = Append(invoked, message')
    /\ UNCHANGED mainVars

\* lines 67-70: the next message is generated and send_message_with_strategy
\* is called
NextMessage ==
    /\ pc = "s_loop"
    /\ i < num_messages
    /\ message' = StressMessage(test_name, i, Len(results))
    /\ step' = 1
    /\ sendLog' = <<>>
    /\ pc' = IF StressImplementation(strategy, message') = <<>> THEN "s_verify" ELSE "s_send"
    /\ UNCHANGED <<envVars, budgetVars, typed, captures, pollFailed, polledAfterFail,
                   goodPoll, results, plan, test_name, num_messages, successful, failed,
                   errors, total_time, report, causes, resolved, interrupted, strategy,
                   iterations, i, test_message, baseline_output, polls, elapsed, ret,
                   test_results, exc>>
    /\ UNCHANGED <<received, futures, messages_per_thread>>
    /\ invoked' = Append(invoked, message')
    /\ UNCHANGED mainVars

\* a scenario loop that a failed message ends
CountAbort(success, cause, time) ==
    /\ successful' = IF success THEN successful + 1 ELSE successful
    /\ failed' = IF success THEN failed ELSE failed + 1
    /\ errors' = IF success THEN errors
                 ELSE Append(errors, [index |-> i, text |-> "not received"])
    /\ causes' = IF success THEN causes ELSE Append(causes, cause)
    /\ total_time' = total_time + time + Pause(test_name)
    /\ resolved' = resolved + 1
    /\ received' = success
    /\ i' = IF success THEN i + 1 ELSE num_messages
    /\ pc' = "s_loop"

\* a scenario loop that does not count the messages that failed
CountSuccessesOnly(success, cause, time) ==
    /\ successful' = IF success THEN successful + 1 ELSE successful
    /\ failed' = failed
    /\ errors' = IF success THEN errors
                 ELSE Append(errors, [index |-> i, text |-> "not received"])
    /\ causes' = IF success THEN causes ELSE Append(causes, cause)
    /\ total_time' = total_time + time + Pause(test_name)
    /\ resolved' = resolved + 1
    /\ received' = success
    /\ i' = i + 1
    /\ pc' = "s_loop"

\* lines 70-80: send_message_with_strategy has returned success after taking
\* time ticks; the scenario counts it and pauses
Count(success, cause, time) ==
    /\ successful' = IF success THEN successful + 1 ELSE successful
    /\ failed' = IF success THEN failed ELSE failed + 1
    /\ errors' = IF success THEN errors
                 ELSE Append(errors, [index |-> i, text |-> "not received"])
    /\ causes' = IF success THEN causes ELSE Append(causes, cause)
    /\ total_time' = total_time + time + Pause(test_name)
    /\ resolved' = resolved + 1
    /\ received' = success
    /\ i' = i + 1
    /\ pc' = "s_loop"

\* one time.sleep of the strategy, lines 41 and 45
StressSleep ==
    /\ pc = "s_send"
    /\ LET c == StressImplementation(strategy, message)[step] IN
          /\ c.op = "sleep"
          /\ total_time' = total_time + c.d
    /\ step' = step + 1
    /\ UNCHANGED <<envVars, budgetVars, histVars, results, plan, test_name, num_messages,
                   message, successful, failed, errors, report, causes, resolved,
                   interrupted, pc, strategy, iterations, i, test_message,
                   baseline_output, polls, elapsed, ret, test_results, exc>>
    /\ UNCHANGED <<received, futures, messages_per_thread>>
    /\ UNCHANGED <<mainVars, invoked>>

\* one subprocess.run of the strategy, lines 36-46; when it raises, lines
\* 54-56 print the error and return False
StressCall ==
    /\ pc = "s_send"
    /\ LET impl == StressImplementation(strategy, message)
           c == impl[step] IN
          /\ c.op # "sleep"
          /\ \E o \in CallOutcomes(c) :
                /\ Effect(c, o)
                /\ Spend(o)
                /\ sendLog' = Append(sendLog, [op |-> c.op, text |-> c.text, landed |-> Landed(c, o),
                                               keys |-> c.keys, rc |-> o.rc])
                /\ IF o.rc = "timeout"
                   THEN /\ Count(FALSE, "DriverTimeout", o.dur)
                        /\ step' = step
                   ELSE /\ total_time' = total_time + o.dur
                        /\ step' = step + 1
                        /\ pc' = IF step = Len(impl) THEN "s_verify" ELSE "s_send"
                        /\ UNCHANGED <<successful, failed, errors, causes, resolved, i,
                                       received>>
    /\ UNCHANGED <<captures, pollFailed, polledAfterFail, goodPoll, results, plan,
                   test_name, num_messages, message, report, interrupted, strategy,
                   iterations, test_message, baseline_output, polls, elapsed, ret,
                   test_results, exc>>
    /\ UNCHANGED <<futures, messages_per_thread>>
    /\ UNCHANGED <<mainVars, invoked>>

\* lines 48-52: the sleep, the capture and the check of the message; lines
\* 54-56 when the capture raises
StressVerify ==
    /\ pc = "s_verify"
    /\ \E o \in CallOutcomes(CapturePane) :
          /\ Spend(o)
          /\ Count(o.rc = "ok" /\ Contains(pane, message),
                   IF o.rc = "timeout" THEN "DriverTimeout"
                   ELSE IF o.rc = "rc1" THEN "SessionNotFound" ELSE "NotObserved",
                   VerifyDelay + o.dur)
    /\ UNCHANGED <<envVars, histVars, results, plan, test_name, num_messages, message,
                   report, interrupted, strategy, iterations, test_message, step,
                   baseline_output, polls, elapsed, ret, test_results, exc>>
    /\ UNCHANGED <<futures, messages_per_thread>>
    /\ UNCHANGED <<mainVars, invoked>>

\* the message of iteration n of lane thread_id, line 106
ThreadMessage(thread_id, n, uuid) == <<<<"THREAD", thread_id, n, uuid>>>>

\* a lane of the pool as it starts send_messages_thread(thread_id), line 104
Lane(thread_id) ==
    [thread_id |-> thread_id, i |-> 0, message |-> <<>>, results |-> <<>>,
     landed |-> <<>>, time |-> 0, pc |-> "t_loop"]

\* send_messages_thread has returned, line 110
LaneDone(f) == f.pc = "t_loop" /\ f.i = messages_per_thread

AllLanesDone == \A t \in 1..Len(futures) : LaneDone(futures[t])

\* a collection that keeps the results of the first lane only
ExtendFirst(fs) == IF fs = <<>> THEN <<>> ELSE Head(fs).results

\* a collection that takes the lanes from the last to the first
RECURSIVE ExtendReversed(_)
ExtendReversed(fs) ==
    IF fs = <<>> THEN <<>> ELSE ExtendReversed(Tail(fs)) \o Head(fs).results

\* thread_results.extend(future.result()) for each future in order, lines 117-118
RECURSIVE Extend(_)
Extend(fs) == IF fs = <<>> THEN <<>> ELSE Head(fs).results \o Extend(Tail(fs))

\* sum(thread_results), line 121
RECURSIVE SumTrue(_)
SumTrue(bs) == IF bs = <<>> THEN 0 ELSE (IF Head(bs) THEN 1 ELSE 0) + SumTrue(Tail(bs))

\* the time at which the last lane has returned
RECURSIVE Latest(_)
Latest(fs) ==
    IF fs = <<>> THEN 0
    ELSE IF Head(fs).time > Latest(Tail(fs)) THEN Head(fs).time ELSE Latest(Tail(fs))

\* main() line 350 and concurrent_test lines 112-116: the pool is created and
\* one lane per thread is submitted; ThreadPoolExecutor raises ValueError
\* when max_workers is 0
CallConcurrent ==
    /\ pc = "main"
    /\ plan # <<>>
    /\ Head(plan).test = "concurrent_sending"
    /\ \E n \in Head(plan).threads, k \in Head(plan).counts :
          /\ messages_per_thread' = k
          /\ IF n = 0
             THEN /\ pc' = "raised"
                  /\ exc' = "ValueError"
                  /\ futures' = <<>>
             ELSE /\ pc' = "c_wait"
                  /\ exc' = exc
                  /\ futures' = [t \in 1..n |-> Lane(t - 1)]
    /\ test_name' = Head(plan).test
    /\ strategy' = Head(plan).strategy
    /\ plan' = Tail(plan)
    /\ UNCHANGED <<envVars, budgetVars, histVars, results, num_messages, message,
                   successful, failed, errors, total_time, report, causes, resolved,
                   interrupted, received, iterations, i, test_message, step,
                   baseline_output, polls, elapsed, ret, test_results>>
    /\ UNCHANGED <<mainVars, invoked>>

\* a lane that sends only while no other lane waits for its capture, as if
\* the session were locked from a send to its verification
LaneSendLocked(t) ==
    LET f == futures[t]
        msg == ThreadMessage(f.thread_id, f.i, Len(results))
        c == StressImplementation("double_enter", msg)[1] IN
    /\ f.pc = "t_loop"
    /\ \A u \in 1..Len(futures) : u # t => futures[u].pc # "t_verify"
    /\ f.i < messages_per_thread
    /\ \E o \in CallOutcomes(c) :
          /\ Effect(c, o)
          /\ Spend(o)
          /\ futures' = [futures EXCEPT ![t] =
                IF o.rc = "timeout"
                THEN [f EXCEPT !.i = f.i + 1,
                               !.message = msg,
                               !.results = Append(f.results, FALSE),
                               !.landed = Append(f.landed, Landed(c, o)),
                               !.time = f.time + o.dur + ThreadPause]
                ELSE [f EXCEPT !.message = msg,
                               !.landed = Append(f.landed, Landed(c, o)),
                               !.time = f.time + o.dur,
                               !.pc = "t_verify"]]
          /\ resolved' = IF o.rc = "timeout" THEN resolved + 1 ELSE resolved
    /\ UNCHANGED <<sendLog, captures, pollFailed, polledAfterFail, goodPoll, results,
                   plan, test_name, num_messages, message, successful, failed, errors,
                   total_time, report, causes, interrupted, received,
                   messages_per_thread, testerVars>>
    /\ invoked' = Append(invoked, ThreadMessage(futures[t].thread_id, futures[t].i, Len(results)))
    /\ UNCHANGED mainVars

\* lines 105-107 and 36-38: lane t generates its next message and sends it;
\* lines 54-56 and 108-109 when the call raises
LaneSend(t) ==
    LET f == futures[t]
        msg == ThreadMessage(f.thread_id, f.i, Len(results))
        c == StressImplementation("double_enter", msg)[1] IN
    /\ f.pc = "t_loop"
    /\ f.i < messages_per_thread
    /\ \E o \in CallOutcomes(c) :
          /\ Effect(c, o)
          /\ Spend(o)
          /\ futures' = [futures EXCEPT ![t] =
                IF o.rc = "timeout"
                THEN [f EXCEPT !.i = f.i + 1,
                               !.message = msg,
                               !.results = Append(f.results, FALSE),
                               !.landed = Append(f.landed, Landed(c, o)),
                               !.time = f.time + o.dur + ThreadPause]
                ELSE [f EXCEPT !.message = msg,
                               !.landed = Append(f.landed, Landed(c, o)),
                               !.time = f.time + o.dur,
                               !.pc = "t_verify"]]
          /\ resolved' = IF o.rc = "timeout" THEN resolved + 1 ELSE resolved
    /\ UNCHANGED <<sendLog, captures, pollFailed, polledAfterFail, goodPoll, results,
                   plan, test_name, num_messages, message, successful, failed, errors,
                   total_time, report, causes, interrupted, received,
                   messages_per_thread, testerVars>>
    /\ invoked' = Append(invoked, ThreadMessage(futures[t].thread_id, futures[t].i, Len(results)))
    /\ UNCHANGED mainVars

\* lines 48-52 and 108-109: lane t sleeps, captures the pane and appends
\* whether its message is in it
LaneVerify(t) ==
    LET f == futures[t] IN
    /\ f.pc = "t_verify"
    /\ \E o \in CallOutcomes(CapturePane) :
          /\ Spend(o)
          /\ futures' = [futures EXCEPT ![t] =
                [f EXCEPT !.i = f.i + 1,
                          !.results = Append(f.results,
                                             o.rc = "ok" /\ Contains(pane, f.message)),
                          !.time = f.time + VerifyDelay + o.dur + ThreadPause,
                          !.pc = "t_loop"]]
    /\ resolved' = resolved + 1
    /\ UNCHANGED <<envVars, histVars, results, plan, test_name, num_messages, message,
                   successful, failed, errors, total_time, report, causes, interrupted,
                   received, messages_per_thread, testerVars>>
    /\ UNCHANGED <<mainVars, invoked>>

\* lines 117-138: the lanes' results are collected and the statistics
\* computed; the division by total_messages raises ZeroDivisionError
Collect ==
    /\ pc = "c_wait"
    /\ AllLanesDone
    /\ LET thread_results == Extend(futures)
           total_messages == Len(thread_results) IN
          IF total_messages = 0
          THEN /\ pc' = "raised"
               /\ exc' = "ZeroDivisionError"
               /\ results' = results
          ELSE /\ pc' = "main"
               /\ exc' = exc
               /\ results' = Append(results,
                      StressTestResult(test_name, strategy, total_messages,
                                       SumTrue(thread_results),
                                       total_messages - SumTrue(thread_results),
                                       <<>>, Latest(futures)))
    /\ futures' = <<>>
    /\ UNCHANGED <<envVars, budgetVars, histVars, plan, test_name, num_messages, message,
                   successful, failed, errors, total_time, report, causes, resolved,
                   interrupted, received, messages_per_thread, strategy, iterations, i,
                   test_message, step, baseline_output, polls, elapsed, ret,
                   test_results>>
    /\ UNCHANGED <<mainVars, invoked>>

send_messages_thread == \E t \in 1..Len(futures) : LaneSend(t) \/ LaneVerify(t)

concurrent_test == CallConcurrent \/ send_messages_thread \/ Collect

\* a scenario that drops the oldest recorded result when it records its own
FinishDropping ==
    /\ pc = "s_loop"
    /\ i = num_messages
    /\ IF num_messages = 0
       THEN /\ pc' = "raised"
            /\ exc' = "ZeroDivisionError"
            /\ results' = results
       ELSE /\ pc' = "main"
            /\ exc' = exc
            /\ results' = Append(IF results = <<>> THEN <<>> ELSE Tail(results),
                   StressTestResult(test_name, strategy, num_messages, successful,
                                    failed, errors, JoinedTime(test_name, total_time)))
    /\ UNCHANGED <<envVars, budgetVars, histVars, plan, test_name, num_messages, message,
                   successful, failed, errors, total_time, report, causes, resolved,
                   interrupted, strategy, iterations, i, test_message, step,
                   baseline_output, polls, elapsed, ret, test_results>>
    /\ UNCHANGED <<received, futures, messages_per_thread>>
    /\ UNCHANGED <<mainVars, invoked>>

\* lines 82-97 and 166-181: the statistics of the scenario; the division by
\* num_messages raises ZeroDivisionError, which nothing in main() catches
Finish ==
    /\ pc = "s_loop"
    /\ i = num_messages
    /\ IF num_messages = 0
       THEN /\ pc' = "raised"
            /\ exc' = "ZeroDivisionError"
            /\ results' = results
       ELSE /\ pc' = "main"
            /\ exc' = exc
            /\ results' = Append(results,
                   StressTestResult(test_name, strategy, num_messages, successful,
                                    failed, errors, JoinedTime(test_name, total_time)))
    /\ UNCHANGED <<envVars, budgetVars, histVars, plan, test_name, num_messages, message,
                   successful, failed, errors, total_time, report, causes, resolved,
                   interrupted, strategy, iterations, i, test_message, step,
                   baseline_output, polls, elapsed, ret, test_results>>
    /\ UNCHANGED <<received, futures, messages_per_thread>>
    /\ UNCHANGED <<mainVars, invoked>>

\* the try block of main(), lines 341-362
InBattery ==
    \/ pc \in {"s_loop", "s_send", "s_verify", "c_wait", "b_send", "b_verify"}
    \/ pc = "main" /\ plan # <<>>

\* lines 364-365: KeyboardInterrupt ends the battery wherever it is
Interrupt ==
    /\ InBattery
    /\ interrupted' = TRUE
    /\ pc' = "interrupted"
    /\ UNCHANGED <<envVars, budgetVars, histVars, results, plan, test_name, num_messages,
                   message, successful, failed, errors, total_time, report, causes,
                   resolved, strategy, iterations, i, test_message, step,
                   baseline_output, polls, elapsed, ret, test_results, exc>>
    /\ UNCHANGED <<received, futures, messages_per_thread>>
    /\ UNCHANGED <<mainVars, invoked>>

\* lines 367-396: the report is generated, printed and saved
Report ==
    /\ pc = "interrupted" \/ (pc = "main" /\ plan = <<>>)
    /\ AllLanesDone
    /\ report' = generate_stress_report(results)
    /\ pc' = "reported"
    /\ UNCHANGED <<envVars, budgetVars, histVars, results, plan, test_name, num_messages,
                   message, successful, failed, errors, total_time, causes, resolved,
                   interrupted, strategy, iterations, i, test_message, step,
                   baseline_output, polls, elapsed, ret, test_results, exc>>
    /\ UNCHANGED <<received, futures, messages_per_thread>>
    /\ UNCHANGED <<mainVars, invoked>>

\* busy_claude_test, lines 182-187: the scenario is called and generates the
\* busy task, which it sends with "single_enter", line 188
CallBusy ==
    /\ pc = "main"
    /\ plan # <<>>
    /\ Head(plan).test = "busy_claude"
    /\ \E n \in Head(plan).counts : num_messages' = n
    /\ test_name' = "busy_claude"
    /\ strategy' = "single_enter"
    /\ plan' = Tail(plan)
    /\ message' = BusyTask(Len(results))
    /\ step' = 1
    /\ sendLog' = <<>>
    /\ invoked' = Append(invoked, message')
    /\ pc' = "b_send"
    /\ UNCHANGED <<envVars, budgetVars, typed, captures, pollFailed, polledAfterFail,
                   goodPoll, iterations, i, test_message, baseline_output, polls, elapsed,
                   ret, test_results, exc>>
    /\ UNCHANGED <<results, successful, failed, errors, total_time, report, causes,
                   resolved, interrupted, received, futures, messages_per_thread>>
    /\ UNCHANGED mainVars

\* a scenario that counts the busy task among its messages
BusyStartCounting(success) ==
    /\ successful' = IF success THEN 1 ELSE 0
    /\ failed' = IF success THEN 0 ELSE 1
    /\ errors' = <<>>
    /\ causes' = <<>>
    /\ total_time' = 0
    /\ i' = 0
    /\ strategy' = "double_enter"
    /\ received' = success
    /\ resolved' = resolved + 1
    /\ pc' = "s_loop"

\* lines 188-196: send_message_with_strategy(busy_task, "single_enter") has
\* returned success, which is dropped; the scenario sleeps, sets its
\* counters and start_time and begins its loop, which sends with
\* "double_enter", line 203
BusyStart(success) ==
    /\ successful' = 0
    /\ failed' = 0
    /\ errors' = <<>>
    /\ causes' = <<>>
    /\ total_time' = 0
    /\ i' = 0
    /\ strategy' = "double_enter"
    /\ received' = success
    /\ resolved' = resolved + 1
    /\ pc' = "s_loop"

\* lines 35-36: the busy task is sent; lines 54-56 when the call raises
BusySend ==
    /\ pc = "b_send"
    /\ LET c == StressImplementation(strategy, message)[1] IN
       \E o \in CallOutcomes(c) :
          /\ Effect(c, o)
          /\ Spend(o)
          /\ sendLog' = Append(sendLog, [op |-> c.op, text |-> c.text, landed |-> Landed(c, o),
                                         keys |-> c.keys, rc |-> o.rc])
          /\ IF o.rc = "timeout"
             THEN BusyStart(FALSE)
             ELSE /\ pc' = "b_verify"
                  /\ UNCHANGED <<successful, failed, errors, causes, total_time, i, strategy,
                                 received, resolved>>
    /\ UNCHANGED <<captures, pollFailed, polledAfterFail, goodPoll, iterations,
                   test_message, step, baseline_output, polls, elapsed, ret, test_results,
                   exc>>
    /\ UNCHANGED <<results, plan, test_name, num_messages, message, report, interrupted,
                   futures, messages_per_thread>>
    /\ UNCHANGED <<mainVars, invoked>>

\* lines 48-52: the capture that verifies the busy task
BusyVerify ==
    /\ pc = "b_verify"
    /\ \E o \in CallOutcomes(CapturePane) :
          /\ Spend(o)
          /\ BusyStart(o.rc = "ok" /\ Contains(pane, message))
    /\ UNCHANGED <<envVars, histVars, iterations, test_message, step, baseline_output,
                   polls, elapsed, ret, test_results, exc>>
    /\ UNCHANGED <<results, plan, test_name, num_messages, message, report, interrupted,
                   futures, messages_per_thread>>
    /\ UNCHANGED <<mainVars, invoked>>

busy_claude_test == CallBusy \/ BusySend \/ BusyVerify

send_message_with_strategy == StressSleep \/ StressCall \/ StressVerify

stress_main == CallScenario \/ NextMessage \/ Finish \/ Interrupt \/ Report

\* main(), lines 325-336: a session whose name contains "claude" is looked
\* for; without one main() prints a diagnostic and returns
StressFindSession ==
    /\ pc = "start"
    /\ pc' = IF sessionUp THEN "main" ELSE "no_session"
    /\ UNCHANGED <<envVars, budgetVars, histVars, stressVars, mainVars, invoked, strategy,
                   iterations, i, test_message, step, baseline_output, polls, elapsed,
                   ret, test_results, exc>>

----------------------------------------------------------------------------
(* main() of test_send_enter.py and TmuxClaudeMessageTester.generate_report *)

\* the strategies list of main(), lines 223-231, in order
Strategies ==
    <<"single_enter", "double_enter", "triple_enter", "enter_delay_enter",
      "c_return", "separate_commands", "paste_mode">>

\* set(r.strategy_name for r in self.test_results), line 134
StrategyNames(trs) == {trs[k].strategy_name : k \in 1..Len(trs)}

\* [r for r in self.test_results if r.strategy_name == strategy_name], line 135
RECURSIVE StrategyResults(_, _)
StrategyResults(trs, name) ==
    IF trs = <<>> THEN <<>>
    ELSE IF Head(trs).strategy_name = name
         THEN <<Head(trs)>> \o StrategyResults(Tail(trs), name)
         ELSE StrategyResults(Tail(trs), name)

\* sum(1 for r in strategy_results if r.success), lines 136 and 143
RECURSIVE SuccessCount(_)
SuccessCount(rs) ==
    IF rs = <<>> THEN 0 ELSE (IF Head(rs).success THEN 1 ELSE 0) + SuccessCount(Tail(rs))

\* the sum behind statistics.mean([r.response_time ...]), line 137
RECURSIVE TimeSum(_)
TimeSum(rs) == IF rs = <<>> THEN 0 ELSE Head(rs).response_time + TimeSum(Tail(rs))

\* lines 136-144: the statistics of one strategy; len(strategy_results) is
\* never 0 because the name is taken from a recorded result
StrategyStats(rs) ==
    [success_rate |-> Fraction(SuccessCount(rs) * 100, Len(rs)),
     avg_response_time |-> Fraction(TimeSum(rs), Len(rs)),
     total_tests |-> Len(rs),
     successful_tests |-> SuccessCount(rs)]

\* strategy_stats, lines 132-144
AllStrategyStats(trs) ==
    [n \in StrategyNames(trs) |-> StrategyStats(StrategyResults(trs, n))]

\* max(strategy_stats.items(), key=lambda x: x[1]['success_rate']), line 150,
\* returns the first item of greatest rate in the insertion order of the
\* dict, which is the order the loop at line 134 visits the set of names in;
\* that order depends on the hash seed of the run, so any name of greatest
\* rate can be the one returned
BestStrategies(trs) ==
    IF StrategyNames(trs) = {} THEN {None}
    ELSE {n \in StrategyNames(trs) :
             \A m \in StrategyNames(trs) :
                ~FracLess(AllStrategyStats(trs)[n].success_rate,
                          AllStrategyStats(trs)[m].success_rate)}

\* generate_report, lines 130-151, max() returning best
generate_report(trs, best) ==
    [total_tests |-> Len(trs),
     strategies_tested |-> Cardinality(StrategyNames(trs)),
     strategy_stats |-> AllStrategyStats(trs),
     best_strategy |-> best]

\* main(), lines 203-220: a session whose name contains "claude" is looked
\* for; without one main() prints a diagnostic and returns
FindSession ==
    /\ pc = "t_start"
    /\ pc' = IF sessionUp THEN "t_main" ELSE "no_session"
    /\ UNCHANGED <<envVars, budgetVars, histVars, stressVars, mainVars, invoked, strategy,
                   iterations, i, test_message, step, baseline_output, polls, elapsed,
                   ret, test_results, exc>>

\* main(), lines 236-237: run_strategy_test is called for the next strategy
NextStrategy ==
    /\ pc \in {"t_main", "done"}
    /\ strategies # <<>>
    /\ strategy' = Head(strategies)
    /\ strategies' = Tail(strategies)
    /\ UNCHANGED <<reports, name_order>>
    /\ iterations' = MainIterations
    /\ i' = 0
    /\ pc' = "loop"
    /\ UNCHANGED <<envVars, budgetVars, histVars, stressVars, invoked, test_message,
                   step, baseline_output, polls, elapsed, ret, test_results, exc>>

\* main(), lines 239-284: the report is generated, printed and saved
PrintReport ==
    /\ pc \in {"t_main", "done"}
    /\ strategies = <<>>
    /\ \E best \in BestStrategies(test_results) :
          report' = generate_report(test_results, best)
    /\ pc' = "saved"
    /\ UNCHANGED <<envVars, budgetVars, histVars, mainVars, invoked, strategy,
                   iterations, i, test_message, step, baseline_output, polls, elapsed,
                   ret, test_results, exc, results, plan, test_name, num_messages,
                   message, successful, failed, errors, total_time, causes, resolved,
                   interrupted, received, futures, messages_per_thread>>

tester_main == FindSession \/ NextStrategy \/ PrintReport

----------------------------------------------------------------------------
(* The report methods called by a user of the two classes *)

\* the best strategy of one process: max() at line 150 returns the first
\* item of greatest rate, in the order the loop at line 134 visited the names
FirstBest(trs, order) ==
    IF StrategyNames(trs) = {} THEN None
    ELSE order[CHOOSE k \in 1..Len(order) :
                  /\ order[k] \in BestStrategies(trs)
                  /\ \A j \in 1..(k - 1) : order[j] \notin BestStrategies(trs)]

\* tester.generate_report() called by a user of the class between the runs
\* of run_strategy_test: the method reads self.test_results and returns the
\* report, lines 130-151
GenerateReport ==
    /\ pc = "idle"
    /\ Len(reports) < MaxReports
    /\ reports' = Append(reports,
                         generate_report(test_results, FirstBest(test_results, name_order)))
    /\ UNCHANGED <<envVars, budgetVars, testerVars, histVars, stressVars, strategies,
                   name_order, invoked>>

\* a report call that forgets the results it has reported
GenerateStressReportDraining ==
    /\ pc = "s_idle"
    /\ Len(reports) < MaxReports
    /\ reports' = Append(reports, generate_stress_report(results))
    /\ results' = <<>>
    /\ UNCHANGED <<envVars, budgetVars, testerVars, histVars, strategies, name_order,
                   invoked, plan, test_name, num_messages, message, successful, failed,
                   errors, total_time, report, causes, resolved, interrupted, received,
                   futures, messages_per_thread>>

\* tester.generate_stress_report() called by a user of the class between
\* the scenario methods: the method reads self.results and returns the
\* report, lines 286-319
GenerateStressReport ==
    /\ pc = "s_idle"
    /\ Len(reports) < MaxReports
    /\ reports' = Append(reports, generate_stress_report(results))
    /\ UNCHANGED <<envVars, budgetVars, testerVars, histVars, stressVars, strategies,
                   name_order, invoked>>

report_calls == GenerateReport \/ GenerateStressReport

----------------------------------------------------------------------------
(* LargeMessageTester of test_large_message_reliability.py: every driver   *)
(* call is subprocess.run(..., check=True) without a timeout, so a         *)
(* non-zero exit status raises CalledProcessError and no call times out    *)

\* the ways a call of command c with check=True can end now
LargeOutcomes(c) == {o \in CallOutcomes(c) : o.rc # "timeout"}

\* the text of 'Test ping', line 26, and what "ping" in stdout.lower() looks for
PingText == <<<<"ping">>>>

\* a split that keeps only the chunks of full size
ChunksOfFullSize(msg, chunk_size) ==
    [k \in 1..(Len(msg) \div chunk_size) |->
        SubSeq(msg, (k - 1) * chunk_size + 1, k * chunk_size)]

\* [message[i:i+chunk_size] for i in range(0, len(message), chunk_size)],
\* line 43, for chunk_size > 0
Chunks(msg, chunk_size) ==
    [k \in 1..((Len(msg) + chunk_size - 1) \div chunk_size) |->
        SubSeq(msg, (k - 1) * chunk_size + 1, Min(k * chunk_size, Len(msg)))]

\* lines 45-48: every chunk is sent and followed by a sleep
RECURSIVE SendChunks(_)
SendChunks(chunks) ==
    IF chunks = <<>> THEN <<>>
    ELSE <<Cmd("send-keys", Head(chunks), <<>>), Sleep(ChunkDelay)>> \o SendChunks(Tail(chunks))

\* strategy_chunked_sending, lines 43-55, for chunk_size > 0
chunked_sending(msg, chunk_size) ==
    SendChunks(Chunks(msg, chunk_size))
        \o <<Cmd("send-keys", <<>>, <<"Enter">>), Sleep(LargeVerifyDelay), CapturePane>>

\* strategy_paste_buffer, lines 76-95: the temporary file holds the message,
\* load-buffer reads it
paste_buffer(msg) ==
    <<Cmd("load-buffer", msg, <<>>),
      Cmd("paste-buffer", <<>>, <<>>),
      Cmd("send-keys", <<>>, <<"Enter">>),
      Sleep(LargeVerifyDelay),
      CapturePane>>

\* strategy_single_send_keys, lines 114-119
single_send_keys(msg) ==
    <<Cmd("send-keys", msg, <<"Enter">>), Sleep(SingleVerifyDelay), CapturePane>>

\* heredoc_cmd, lines 138-140
Heredoc(msg) == <<<<"cat << 'EOF'">>, NL>> \o msg \o <<NL, <<"EOF">>>>

\* strategy_heredoc_approach, lines 138-147
heredoc_approach(msg) ==
    <<Cmd("send-keys", Heredoc(msg), <<"Enter">>), Sleep(SingleVerifyDelay), CapturePane>>

\* the strategies list of run_comprehensive_test, lines 211-217, with the
\* chunk sizes a and b
LargeStrategies(a, b) ==
    <<[name |-> "single_send_keys", kind |-> "single", chunk_size |-> 0],
      [name |-> "chunked_500", kind |-> "chunked", chunk_size |-> a],
      [name |-> "chunked_200", kind |-> "chunked", chunk_size |-> b],
      [name |-> "paste_buffer", kind |-> "paste", chunk_size |-> 0],
      [name |-> "heredoc", kind |-> "heredoc", chunk_size |-> 0]>>

\* no strategy has been called yet
NoStrategy == [name |-> "", kind |-> "", chunk_size |-> 0]

\* the driver calls and sleeps of strategy s, the verification capture included
LargeImplementation(s, msg) ==
    CASE s.kind = "single"  -> single_send_keys(msg)
      [] s.kind = "chunked" -> chunked_sending(msg, s.chunk_size)
      [] s.kind = "paste"   -> paste_buffer(msg)
      [] s.kind = "heredoc" -> heredoc_approach(msg)

\* the entry of results for a strategy that returned (success, duration),
\* lines 226-230
LargeResult(success, duration) ==
    [success |-> success, duration |-> duration,
     status |-> IF success THEN "PASS" ELSE "FAIL"]

\* stdout.strip() of a capture: the line ends at both ends are removed
RECURSIVE Strip(_)
Strip(s) ==
    IF s = <<>> THEN <<>>
    ELSE IF Head(s) = NL THEN Strip(Tail(s))
    ELSE IF s[Len(s)] = NL THEN Strip(SubSeq(s, 1, Len(s) - 1))
    ELSE s

\* the local variables result.stdout and success of a strategy after its
\* capture, lines 55-58 (also 94-97, 119-122 and 148-151)
Verification(stdout) == [stdout |-> stdout, success |-> Len(Strip(stdout)) > MinOutput]

\* what a strategy returns after its last call: True, line 62 (also 101, 126
\* and 155); the local variable success is not used
LargeReturn(v) == TRUE

\* test_session_responsive, lines 26-27: the ping is sent; an exception
\* makes the method return False, lines 33-34, and the run is aborted,
\* lines 204-206
PingSend ==
    /\ pc = "l_start"
    /\ LET c == Cmd("send-keys", PingText, <<"Enter">>) IN
       \E o \in LargeOutcomes(c) :
          /\ Effect(c, o)
          /\ Spend(o)
          /\ sendLog' = Append(sendLog, [op |-> c.op, text |-> c.text,
                                         landed |-> Landed(c, o), keys |-> c.keys,
                                         rc |-> o.rc])
          /\ pc' = IF o.rc = "ok" THEN "l_ping" ELSE "l_aborted"
          /\ elapsed' = IF o.rc = "ok" THEN PingDelay + o.dur ELSE elapsed
    /\ UNCHANGED <<captures, pollFailed, polledAfterFail, goodPoll, strategy, iterations,
                   i, test_message, step, baseline_output, polls, ret, test_results, exc>>
    /\ UNCHANGED <<stressVars, mainVars, invoked>>

\* test_session_responsive, lines 30-32, and lines 204-208: the capture is
\* searched for "ping"
PingCheck ==
    /\ pc = "l_ping"
    /\ \E o \in LargeOutcomes(CapturePane) :
          /\ Spend(o)
          /\ pc' = IF o.rc = "ok" /\ Contains(pane, PingText) THEN "l_main" ELSE "l_aborted"
    /\ UNCHANGED <<envVars, histVars, strategy, iterations, i, test_message, step,
                   baseline_output, polls, elapsed, ret, test_results, exc>>
    /\ UNCHANGED <<stressVars, mainVars, invoked>>

\* lines 221-225: the next strategy of the list is called
LargeNext ==
    /\ pc = "l_main"
    /\ strategies # <<>>
    /\ strategy' = Head(strategies)
    /\ strategies' = Tail(strategies)
    /\ step' = 1
    /\ elapsed' = 0
    /\ sendLog' = <<>>
    /\ ret' = NoResult
    /\ invoked' = Append(invoked, Head(strategies).name)
    /\ IF Head(strategies).kind = "chunked" /\ Head(strategies).chunk_size = 0
       THEN /\ results' = (Head(strategies).name :> LargeResult(FALSE, 0)) @@ results
            /\ pc' = "l_main"
       ELSE /\ results' = results
            /\ pc' = "l_strategy"
    /\ UNCHANGED <<envVars, budgetVars, typed, captures, pollFailed, polledAfterFail,
                   goodPoll, iterations, i, test_message, baseline_output, polls,
                   test_results, exc, reports, name_order>>
    /\ UNCHANGED <<plan, test_name, num_messages, message, successful, failed, errors,
                   total_time, report, causes, resolved, interrupted, received, futures,
                   messages_per_thread>>

\* one time.sleep of the running strategy
LargeSleep ==
    /\ pc = "l_strategy"
    /\ LET c == LargeImplementation(strategy, test_message)[step] IN
          /\ c.op = "sleep"
          /\ elapsed' = elapsed + c.d
    /\ step' = step + 1
    /\ UNCHANGED <<envVars, budgetVars, histVars, pc, strategy, iterations, i,
                   test_message, baseline_output, polls, ret, test_results, exc>>
    /\ UNCHANGED <<stressVars, mainVars, invoked>>

\* one subprocess.run of the running strategy; after the last one the
\* strategy returns and lines 226-233 record its result; when the call
\* raises, the except clause of the strategy returns (False, duration)
LargeCall ==
    /\ pc = "l_strategy"
    /\ LET impl == LargeImplementation(strategy, test_message)
           c == impl[step] IN
          /\ c.op # "sleep"
          /\ \E o \in LargeOutcomes(c) :
                /\ Effect(c, o)
                /\ Spend(o)
                /\ sendLog' = Append(sendLog, [op |-> c.op, text |-> c.text,
                                               landed |-> Landed(c, o), keys |-> c.keys,
                                               rc |-> o.rc])
                /\ elapsed' = elapsed + o.dur
                /\ ret' = IF c = CapturePane /\ o.rc = "ok" THEN Verification(pane) ELSE ret
                /\ IF o.rc # "ok"
                   THEN /\ results' = (strategy.name :> LargeResult(FALSE, elapsed')) @@ results
                        /\ pc' = "l_main"
                        /\ step' = step
                   ELSE IF step = Len(impl)
                   THEN /\ results' = (strategy.name :>
                                          LargeResult(LargeReturn(ret'), elapsed')) @@ results
                        /\ pc' = "l_main"
                        /\ step' = step
                   ELSE /\ results' = results
                        /\ pc' = "l_strategy"
                        /\ step' = step + 1
    /\ UNCHANGED <<captures, pollFailed, polledAfterFail, goodPoll, strategy, iterations,
                   i, test_message, baseline_output, polls, test_results, exc>>
    /\ UNCHANGED <<plan, test_name, num_messages, message, successful, failed, errors,
                   total_time, report, causes, resolved, interrupted, received, futures,
                   messages_per_thread>>
    /\ UNCHANGED <<mainVars, invoked>>

\* the successful strategies in the order of the list, line 253
RECURSIVE Successful(_, _)
Successful(names, rs) ==
    IF names = <<>> THEN <<>>
    ELSE (IF Head(names) \in DOMAIN rs /\ rs[Head(names)].success
          THEN <<Head(names)>> ELSE <<>>) \o Successful(Tail(names), rs)

\* min(successful_strategies, key=duration), lines 254-255: the first
\* strategy of least duration, None when all have failed
FastestStrategy(names, rs) ==
    IF names = <<>> THEN None
    ELSE names[CHOOSE k \in 1..Len(names) :
                  /\ \A j \in 1..Len(names) : rs[names[k]].duration <= rs[names[j]].duration
                  /\ \A j \in 1..(k - 1) : rs[names[j]].duration > rs[names[k]].duration]

\* lines 244-260: the summary is logged and results returned
LargeSummary ==
    /\ pc = "l_main"
    /\ strategies = <<>>
    /\ report' = [best |-> FastestStrategy(Successful(invoked, results), results)]
    /\ pc' = "l_done"
    /\ UNCHANGED <<envVars, budgetVars, histVars, strategy, iterations, i, test_message,
                   step, baseline_output, polls, elapsed, ret, test_results, exc>>
    /\ UNCHANGED <<results, plan, test_name, num_messages, message, successful, failed,
                   errors, total_time, causes, resolved, interrupted, received, futures,
                   messages_per_thread>>
    /\ UNCHANGED <<mainVars, invoked>>

test_session_responsive == PingSend \/ PingCheck

run_comprehensive_test == LargeNext \/ LargeSleep \/ LargeCall \/ LargeSummary

----------------------------------------------------------------------------
(* Specifications *)

InitSession ==
    /\ sessionUp = TRUE
    /\ pending = <<>>
    /\ buffer = <<>>
    /\ typed = {}
    /\ sendLog = <<>>
    /\ captures = 0
    /\ pollFailed = FALSE
    /\ polledAfterFail = FALSE
    /\ goodPoll = FALSE
    /\ invoked = <<>>
    /\ reports = <<>>

InitStressIdle ==
    /\ results = <<>>
    /\ plan = <<>>
    /\ test_name = ""
    /\ num_messages = 0
    /\ message = <<>>
    /\ successful = 0
    /\ failed = 0
    /\ errors = <<>>
    /\ total_time = 0
    /\ report = NoReport
    /\ causes = <<>>
    /\ resolved = 0
    /\ interrupted = FALSE
    /\ received = FALSE
    /\ futures = <<>>
    /\ messages_per_thread = 0

InitAttempt ==
    /\ step = 1
    /\ baseline_output = <<>>
    /\ polls = 0
    /\ elapsed = 0
    /\ ret = NoResult
    /\ test_results = <<>>
    /\ exc = ""
    /\ i = 0

\* one run_strategy_test(strategy, iterations) of a registered strategy
Init ==
    /\ InitSession
    /\ name_order = Strategies
    /\ strategies = <<>>
    /\ InitAttempt
    /\ InitStressIdle
    /\ faultsLeft = MaxFaults
    /\ pane = <<>>
    /\ strategy \in Registry
    /\ iterations \in 0..MaxIterations
    /\ test_message = <<>>
    /\ pc = "loop"

Next == Session \/ send_test_message \/ run_strategy_test

Spec == Init /\ [][Next]_vars

\* the messages of direct send_test_message calls: any text, one line or more
Payloads == Texts({<<"a">>, NL}, 1, MaxPayloadLen)

\* one send_test_message(strategy, test_message) with any message
InitVerify ==
    /\ InitSession
    /\ name_order = Strategies
    /\ strategies = <<>>
    /\ InitAttempt
    /\ InitStressIdle
    /\ faultsLeft = MaxFaults
    /\ strategy \in Registry
    /\ iterations = 1
    /\ test_message \in Payloads
    /\ pane \in {<<>>, Window(test_message)}
    /\ pc = "call"

NextVerify == Session \/ send_test_message

VerifySpec == InitVerify /\ [][NextVerify]_vars

\* a battery of scenario calls on a session that was found
InitBattery(calls) ==
    /\ InitSession
    /\ name_order = Strategies
    /\ strategies = <<>>
    /\ InitAttempt
    /\ faultsLeft = MaxStressFaults
    /\ pane = <<>>
    /\ strategy = ""
    /\ iterations = 0
    /\ test_message = <<>>
    /\ pc = "main"
    /\ results = <<>>
    /\ plan = calls
    /\ test_name = ""
    /\ num_messages = 0
    /\ message = <<>>
    /\ successful = 0
    /\ failed = 0
    /\ errors = <<>>
    /\ total_time = 0
    /\ report = NoReport
    /\ causes = <<>>
    /\ resolved = 0
    /\ interrupted = FALSE
    /\ received = FALSE
    /\ futures = <<>>
    /\ messages_per_thread = 0

\* the stress battery of main() on a session that was found
InitStress == InitBattery(MainPlan)

NextStress == Session \/ send_message_with_strategy \/ concurrent_test \/ stress_main

StressSpec == InitStress /\ [][NextStress]_vars

\* either harness, started on a session that was found
InitHarness == Init \/ InitStress

NextHarness == Next \/ NextStress

HarnessSpec == InitHarness /\ [][NextHarness]_vars

\* rapid_fire_test and long_message_test called with ManyMessages messages
LongPlan ==
    <<ScenarioCalls({ManyMessages}, {1})[1], ScenarioCalls({ManyMessages}, {1})[4]>>

InitLong == InitBattery(LongPlan)

NextLong == Session \/ send_message_with_strategy \/ stress_main

\* two single-lane scenarios long enough for more failures than are kept
LongSpec == InitLong /\ [][NextLong]_vars

\* the test message of run_comprehensive_test, lines 171-200: several lines
LargeMessages == Texts({<<"a">>, NL}, MaxLargeLen, MaxLargeLen)

\* run_comprehensive_test, or the loop of lines 221-242 over one call of
\* strategy_chunked_sending(message, chunk_size) with any message
InitLarge ==
    /\ InitSession
    /\ name_order = Strategies
    /\ InitAttempt
    /\ InitStressIdle
    /\ faultsLeft = MaxStressFaults
    /\ pane = <<>>
    /\ strategy = NoStrategy
    /\ iterations = 0
    /\ \/ /\ pc = "l_start"
          /\ test_message \in LargeMessages
          /\ strategies = LargeStrategies(ChunkA, ChunkB)
       \/ /\ pc = "l_main"
          /\ test_message \in Texts({<<"a">>, <<"b">>, NL}, 0, MaxLargeLen)
          /\ \E n \in 0..MaxChunk :
                strategies = <<[name |-> "chunked", kind |-> "chunked", chunk_size |-> n]>>

NextLarge == Session \/ test_session_responsive \/ run_comprehensive_test

LargeSpec == InitLarge /\ [][NextLarge]_vars

\* one send_message_with_strategy(message, strategy) with any message and
\* any strategy name, "triple_enter" being a name the method does not know,
\* called as by line 70 of a scenario of one message
InitDirect ==
    /\ InitSession
    /\ name_order = Strategies
    /\ strategies = <<>>
    /\ InitAttempt
    /\ faultsLeft = MaxStressFaults
    /\ iterations = 0
    /\ test_message = <<>>
    /\ strategy \in KnownStrategies \cup {"triple_enter"}
    /\ message \in Payloads
    /\ pane \in {<<>>, Window(message)}
    /\ pc = IF StressImplementation(strategy, message) = <<>> THEN "s_verify" ELSE "s_send"
    /\ test_name = "rapid_fire"
    /\ num_messages = 1
    /\ results = <<>>
    /\ plan = <<>>
    /\ successful = 0
    /\ failed = 0
    /\ errors = <<>>
    /\ total_time = 0
    /\ report = NoReport
    /\ causes = <<>>
    /\ resolved = 0
    /\ interrupted = FALSE
    /\ received = FALSE
    /\ futures = <<>>
    /\ messages_per_thread = 0

NextDirect == Session \/ send_message_with_strategy

DirectSpec == InitDirect /\ [][NextDirect]_vars

\* busy_claude_test with any count, then system_load_test with one message
\* or with its default count
ScenarioPlan ==
    <<[test |-> "busy_claude", strategy |-> "double_enter",
       counts |-> 0..MaxMessages, threads |-> {1}],
      [test |-> "system_load", strategy |-> "enter_delay_enter",
       counts |-> {1, LoadMessages}, threads |-> {1}]>>

InitScenario == InitBattery(ScenarioPlan)

NextScenario == Session \/ send_message_with_strategy \/ busy_claude_test \/ stress_main

ScenarioSpec == InitScenario /\ [][NextScenario]_vars

\* the sequences of at most n elements of S
SeqUpTo(S, n) == UNION {[1..k -> S] : k \in 0..n}

\* the strategies a user of TmuxClaudeMessageTester has run
ReportNames == {"single_enter", "double_enter"}

\* the results send_test_message returns, lines 81-99: delivered at the
\* first or the second poll, or timed out
ReportTestResults ==
    {[strategy_name |-> n, test_id |-> 0, message_sent |-> <<>>, success |-> ok,
      response_time |-> IF ok THEN t ELSE MaxWait, error |-> ""] :
        n \in ReportNames, ok \in BOOLEAN, t \in {CheckInterval, 2 * CheckInterval}}

\* self.test_results after the attempts q: each attempt has its own test_id
\* and message
Attempts(q) ==
    [k \in 1..Len(q) |->
        [q[k] EXCEPT !.test_id = TestId(k - 1),
                     !.message_sent = GeneratedMessage(q[k].strategy_name, k - 1,
                                                       MessageUuid(k - 1))]]

\* the messages a scenario did not see arrive, lines 74 and 122
NotReceived(bad) == [j \in 1..bad |-> [index |-> j - 1, text |-> "not received"]]

\* the results the scenario methods record, lines 85-95 and 126-136
ReportStressResults ==
    UNION {{StressTestResult(c.test, c.strategy, n, ok, n - ok,
                             IF c.test = "rapid_fire" THEN NotReceived(n - ok) ELSE <<>>,
                             n * t) :
               c \in {ScenarioCalls({}, {})[k] : k \in 1..3}, ok \in 0..n,
               t \in {VerifyDelay, VerifyDelay + MaxCallTime}} :
           n \in 1..MaxMessages}

\* an object of either class between the method calls of its user, holding
\* the results of at most MaxRecorded attempts or scenarios
InitReport ==
    /\ InitSession
    /\ plan = <<>>
    /\ test_name = ""
    /\ num_messages = 0
    /\ message = <<>>
    /\ successful = 0
    /\ failed = 0
    /\ errors = <<>>
    /\ total_time = 0
    /\ report = NoReport
    /\ causes = <<>>
    /\ resolved = 0
    /\ interrupted = FALSE
    /\ received = FALSE
    /\ futures = <<>>
    /\ messages_per_thread = 0
    /\ strategies = <<>>
    /\ faultsLeft = 0
    /\ pane = <<>>
    /\ strategy = ""
    /\ iterations = 0
    /\ i = 0
    /\ test_message = <<>>
    /\ step = 1
    /\ baseline_output = <<>>
    /\ polls = 0
    /\ elapsed = 0
    /\ ret = NoResult
    /\ exc = ""
    /\ \/ /\ pc = "idle"
          /\ test_results \in {Attempts(q) : q \in SeqUpTo(ReportTestResults, MaxRecorded)}
          /\ name_order \in {<<"single_enter", "double_enter">>,
                             <<"double_enter", "single_enter">>}
          /\ results = <<>>
       \/ /\ pc = "s_idle"
          /\ test_results = <<>>
          /\ name_order = Strategies
          /\ results \in SeqUpTo(ReportStressResults, MaxRecorded)

NextReport == report_calls

\* the report methods applied to recorded results
ReportSpec == InitReport /\ [][NextReport]_vars

\* main() of test_send_enter.py from its start
InitMain ==
    /\ InitSession
    /\ name_order = Strategies
    /\ strategies = Strategies
    /\ InitAttempt
    /\ InitStressIdle
    /\ faultsLeft = MaxStressFaults
    /\ pane = <<>>
    /\ strategy = ""
    /\ iterations = 0
    /\ test_message = <<>>
    /\ pc = "t_start"

\* main() of stress_test_send_enter.py from its start
InitStressMain ==
    /\ InitSession
    /\ name_order = Strategies
    /\ strategies = <<>>
    /\ InitAttempt
    /\ faultsLeft = MaxStressFaults
    /\ pane = <<>>
    /\ strategy = ""
    /\ iterations = 0
    /\ test_message = <<>>
    /\ pc = "start"
    /\ results = <<>>
    /\ plan = MainCalls
    /\ test_name = ""
    /\ num_messages = 0
    /\ message = <<>>
    /\ successful = 0
    /\ failed = 0
    /\ errors = <<>>
    /\ total_time = 0
    /\ report = NoReport
    /\ causes = <<>>
    /\ resolved = 0
    /\ interrupted = FALSE
    /\ received = FALSE
    /\ futures = <<>>
    /\ messages_per_thread = 0

\* the steps of the two programs; the steps of the target session and the
\* user's interrupt are not among them
Program ==
    \/ send_test_message \/ run_strategy_test \/ tester_main
    \/ send_message_with_strategy \/ concurrent_test
    \/ CallScenario \/ NextMessage \/ Finish \/ Report \/ StressFindSession

NextMain == Session \/ Interrupt \/ Program

\* either main(): a program that can take a step does take one
MainSpec == (InitMain \/ InitStressMain) /\ [][NextMain]_vars /\ WF_vars(Program)

----------------------------------------------------------------------------
(* Properties of TmuxClaudeMessageTester *)

Recorded(k) == test_results[k]

\* the attempt send_test_message has just returned
Returned == pc = "returned"

\* C3: Verify reports Delivered exactly when some poll capture contained the
\* payload and differed from the baseline, and otherwise reports TimedOut only
\* after all int(max_wait / check_interval) polls; for every payload, of one
\* line or of several.
C3_DeliveredIffObserved ==
    Returned /\ ret.error = "" =>
        /\ ret.success <=> goodPoll
        /\ ~ret.success => polls = NumPolls

\* C4: every attempt reported Delivered has response_time <= max_wait.
C4_DeliveredWithinMaxWait ==
    /\ Returned /\ ret.success => ret.response_time <= MaxWait
    /\ \A k \in 1..Len(test_results) :
          Recorded(k).success => Recorded(k).response_time <= MaxWait

\* C5: every attempt reported TimedOut (not delivered, no error) has a
\* response_time within one check_interval of max_wait.
C5_TimedOutNearMaxWait ==
    \A k \in 1..Len(test_results) :
        ~Recorded(k).success /\ Recorded(k).error = "" =>
            /\ Recorded(k).response_time >= MaxWait - CheckInterval
            /\ Recorded(k).response_time <= MaxWait + CheckInterval

\* C6: a capture-pane failure during polling makes the attempt Errored, with
\* the error attached, and no capture is made after it.
C6_CaptureFailureStopsPolling ==
    /\ pollFailed => Returned /\ ret.error # ""
    /\ ~polledAfterFail

\* a send of the current attempt found no session
SessionNotFound == \E k \in 1..Len(sendLog) : sendLog[k].rc = "rc1"

\* C7: an attempt whose send finds the session missing is recorded as Errored
\* with error detail, and so is every later attempt of the run.
C7_MissingSessionErrored ==
    Returned /\ SessionNotFound => ~ret.success /\ ret.error # ""

----------------------------------------------------------------------------
(* Properties of TmuxClaudeStressTester and of both harnesses *)

RateInRange(r) == r.den > 0 /\ 0 <= r.num /\ r.num <= 100 * r.den

\* C1: every statistics record has a success rate between 0 and 100, and no
\* statistics producer fails with a division by zero, whatever the attempt
\* count, zero included.
C1_SuccessRateDefined ==
    /\ exc # "ZeroDivisionError"
    /\ \A k \in 1..Len(results) : RateInRange(results[k].success_rate)
    /\ pc = "reported" => RateInRange(report.overall_success_rate)

\* the text of the running attempt has reached the target by the attempt's
\* own driver calls
OwnTextLanded(msg) == \E k \in 1..Len(sendLog) : sendLog[k].landed = msg

\* C2: an attempt is reported delivered only when its own payload was sent
\* to the target by its own send and was then captured; text of another
\* attempt, of another lane or left in the pane never makes it delivered.
C2_DeliveredOnlyByOwnPayload ==
    /\ Returned /\ ret.success => goodPoll /\ OwnTextLanded(test_message)
    /\ pc = "s_loop" /\ i > 0 /\ received => OwnTextLanded(message)
    /\ \A t \in 1..Len(futures) : \A k \in 1..Len(futures[t].results) :
          futures[t].results[k] =>
              futures[t].landed[k] = ThreadMessage(futures[t].thread_id, k - 1, Len(results))

\* two lanes have each had a message reported delivered while the other
\* lane was writing to the same pane
C2_Witness ==
    /\ Len(futures) = 2
    /\ \A t \in 1..2 : futures[t].results # <<>> /\ futures[t].results[1]

\* C8: a driver call that exceeds its timeout is recorded as an error of the
\* attempt, not as a message that was not received.
C8_DriverTimeoutRecordedAsError ==
    \A k \in 1..Len(causes) :
        causes[k] = "DriverTimeout" => errors[k].text = "error"

\* C9: a scenario records one attempt per planned payload: a failed attempt
\* is counted and the loop goes on to the next payload.
C9_FailuresDoNotAbortScenario ==
    /\ pc = "loop" => Len(test_results) = i /\ i <= iterations
    /\ pc = "done" => Len(test_results) = iterations
    /\ pc = "s_loop" => successful + failed = i /\ i <= num_messages
    /\ pc = "c_wait" /\ AllLanesDone =>
          Len(Extend(futures)) = Len(futures) * messages_per_thread
    /\ \A k \in 1..Len(results) :
          results[k].successful_messages + results[k].failed_messages
              = results[k].total_messages
    /\ pc = "main" /\ results # <<>> /\ test_name \in {"rapid_fire", "long_messages"} =>
          results[Len(results)].total_messages = num_messages

\* a scenario of two messages has ended whose first message failed on a
\* driver timeout and whose second message was delivered
C9_Witness ==
    /\ pc = "main"
    /\ test_name = "rapid_fire"
    /\ results # <<>>
    /\ results[Len(results)].total_messages = 2
    /\ results[Len(results)].successful_messages = 1
    /\ causes = <<"DriverTimeout">>
    /\ errors[1].index = 0

\* C10: the report of an interrupted run counts every attempt that had
\* resolved, those of the scenario in progress included.
C10_InterruptKeepsResolvedAttempts ==
    pc = "reported" /\ interrupted => report.total_messages >= resolved

----------------------------------------------------------------------------
(* Properties of the two main() programs *)

SessionSelected == pc \in {"t_main", "main"}

ReportEmitted == pc \in {"saved", "reported"}

\* C11: once main() has selected a target session, the run goes on until
\* its report has been printed and saved, whatever the attempts' outcomes.
C11_RunEmitsReport == SessionSelected ~> ReportEmitted

\* the report of test_send_enter.py has been saved after an attempt that
\* ended with an error
C11_Witness ==
    /\ pc = "saved"
    /\ \E k \in 1..Len(test_results) : test_results[k].error # ""

\* C12: a scenario that fails as a whole ends only itself: when the run of
\* stress_test_send_enter.py is over without an interrupt, every scenario of
\* the battery has been called and the report has been generated.
C12_ScenarioFailureAbortsOnlyScenario ==
    (pc \in {"raised", "reported"} /\ ~interrupted) =>
        (plan = <<>> /\ report # NoReport)

\* the exit status of the process, lines 286-287 (410-411 of the stress
\* test): main() is called and its value dropped, so the status is 0 whenever
\* main() returns and 1 when an exception leaves it
ExitStatus == IF pc = "raised" THEN 1 ELSE 0

\* C13: when no session with "claude" in its name is found at start-up,
\* nothing has been sent and the process ends with a non-zero exit status.
C13_NoSessionExitsNonZero ==
    pc = "no_session" => (invoked = <<>> /\ typed = {} /\ ExitStatus # 0)

----------------------------------------------------------------------------
(* Order and number of the attempts *)

\* msg is a message of lane thread_id generated during the concurrent
\* scenario whose messages carry uuid
IsLaneMessage(msg, thread_id, uuid) ==
    /\ msg[1][1] = "THREAD"
    /\ msg[1][2] = thread_id
    /\ msg[1][4] = uuid

\* how many messages lane t of the running concurrent scenario has passed to
\* send_message_with_strategy
LaneSent(t) ==
    Cardinality({k \in 1..Len(invoked) :
                    IsLaneMessage(invoked[k], futures[t].thread_id, Len(results))})

\* how many send calls have begun whose attempt has no outcome yet: in lane t
\* of a concurrent scenario, and in a single-lane loop of either harness
LaneInFlight(t) == LaneSent(t) - Len(futures[t].results)

InFlight == Len(invoked) - (Len(test_results) + resolved)

\* C14: within one lane the send of an attempt begins only after every
\* earlier attempt of the lane has its outcome: a single-lane loop and each
\* lane of the concurrent scenario have at most one attempt without outcome.
C14_LaneAttemptsSequential ==
    IF futures # <<>>
    THEN \A t \in 1..Len(futures) : LaneInFlight(t) \in {0, 1}
    ELSE InFlight \in {0, 1}

\* a lane of the concurrent scenario has sent its second message, which has
\* no outcome yet
C14_Witness ==
    \E t \in 1..Len(futures) :
        /\ LaneSent(t) = 2
        /\ LaneInFlight(t) = 1
        /\ futures[t].pc = "t_verify"

\* lane t has sent a message whose verification capture it has not made yet
SentNotVerified(t) == futures[t].pc = "t_verify"

\* C15: the harness never locks the target session: a lane of the concurrent
\* scenario that has a message left to send can send it whatever the other
\* lanes are doing, also while another lane has sent and not yet verified.
C15_SessionNeverLocked ==
    \A t \in 1..Len(futures) :
        (futures[t].pc = "t_loop" /\ futures[t].i < messages_per_thread)
            => ENABLED LaneSend(t)

\* two lanes have each sent a message to the session and neither has made
\* its verification capture
C15_Witness ==
    \E t, u \in 1..Len(futures) :
        /\ t # u
        /\ SentNotVerified(t) /\ SentNotVerified(u)
        /\ Len(futures[t].results) = 0 /\ Len(futures[u].results) = 0
        /\ futures[t].message \in typed /\ futures[u].message \in typed

\* the num_threads of the running concurrent scenario: one future has been
\* submitted per thread, line 116
num_threads == Len(futures)

\* the calls of send_message_with_strategy made for message n of lane
\* thread_id in the running concurrent scenario
LaneCalls(thread_id, n) ==
    {k \in 1..Len(invoked) : invoked[k] = ThreadMessage(thread_id, n, Len(results))}

\* the lanes that have sent a message in the running concurrent scenario
LanesSeen ==
    {invoked[k][1][2] : k \in {j \in 1..Len(invoked) :
        invoked[j][1][1] = "THREAD" /\ invoked[j][1][4] = Len(results)}}

\* C16: when concurrent_test(M, K) records its result, the result counts
\* exactly M*K outcomes: every lane returns K outcomes, each (lane, index)
\* pair was sent exactly once, and no more than M lanes have run.
C16_ConcurrentRecordsEveryOutcome ==
    [][(pc = "c_wait" /\ pc' = "main") =>
          LET r == results'[Len(results')] IN
          /\ r.test_name = <<"concurrent_sending">>
          /\ r.total_messages = num_threads * messages_per_thread
          /\ r.successful_messages + r.failed_messages = r.total_messages
          /\ \A t \in 1..num_threads :
                /\ Len(futures[t].results) = messages_per_thread
                /\ \A n \in 0..(messages_per_thread - 1) :
                      Cardinality(LaneCalls(futures[t].thread_id, n)) = 1
          /\ Cardinality(LanesSeen) <= num_threads]_vars

\* a concurrent scenario of MaxThreads lanes and MaxMessages messages per
\* lane has been recorded, with outcomes of both kinds
C16_Witness ==
    \E k \in 1..Len(results) :
        /\ results[k].test_name = <<"concurrent_sending">>
        /\ results[k].total_messages = MaxThreads * MaxMessages
        /\ results[k].successful_messages > 0
        /\ results[k].failed_messages > 0

\* C17: no attempt is retried: no message is passed to a strategy twice,
\* and every recorded outcome belongs to a message of its own, whether the
\* attempt was delivered, timed out or ended with an error.
C17_NoRetry ==
    /\ \A j, k \in 1..Len(invoked) : invoked[j] = invoked[k] => j = k
    /\ Len(test_results) + resolved <= Len(invoked)

\* after an attempt of run_strategy_test that was not delivered, the next
\* iteration has sent its own message
C17_Witness ==
    /\ Len(test_results) >= 1
    /\ ~test_results[1].success
    /\ Len(invoked) = Len(test_results) + 1
    /\ invoked[Len(invoked)] # test_results[1].message_sent

----------------------------------------------------------------------------
(* Properties of the reports *)

\* the entries of rs whose success_rate no entry exceeds
TopRated(rs) ==
    {k \in 1..Len(rs) :
        \A j \in 1..Len(rs) : ~FracLess(rs[k].success_rate, rs[j].success_rate)}

\* the strategies whose success_rate no strategy exceeds
TopStrategies(stats) ==
    {n \in DOMAIN stats :
        \A m \in DOMAIN stats : ~FracLess(stats[n].success_rate, stats[m].success_rate)}

\* C18: the best entry of a report is, among the entries of greatest
\* success rate, one of lowest average response time, in the report of the
\* stress test and in the report of the strategy test.
C18_TieBrokenByLatency ==
    /\ (pc = "reported" /\ results # <<>>) =>
          \E b \in TopRated(results) :
             /\ results[b].test_name = report.best_performing_test
             /\ \A k \in TopRated(results) :
                   ~FracLess(results[k].avg_response_time, results[b].avg_response_time)
    /\ (pc = "saved" /\ test_results # <<>>) =>
          /\ report.best_strategy \in TopStrategies(report.strategy_stats)
          /\ \A n \in TopStrategies(report.strategy_stats) :
                ~FracLess(report.strategy_stats[n].avg_response_time,
                          report.strategy_stats[report.best_strategy].avg_response_time)

\* r is a report of generate_stress_report
IsStressReport(r) == "tests_run" \in DOMAIN r

\* C19: a report made when no attempt has been recorded is made without an
\* exception; its best entry (and, in the stress report, its worst entry) is
\* None, and the overall success rate of the stress report is 0.
C19_EmptyReportHasNoBest ==
    /\ exc = ""
    /\ \A k \in 1..Len(reports) :
          LET r == reports[k] IN
          IF IsStressReport(r)
          THEN r.total_messages = 0 =>
                  /\ r.tests_run = 0
                  /\ r.best_performing_test = None
                  /\ r.worst_performing_test = None
                  /\ r.overall_success_rate.num = 0
                  /\ r.overall_success_rate.den # 0
          ELSE r.total_tests = 0 =>
                  /\ r.strategies_tested = 0
                  /\ r.best_strategy = None

\* generate_stress_report has returned a report of no results
C19_Witness ==
    /\ pc = "s_idle"
    /\ results = <<>>
    /\ reports # <<>>
    /\ reports[1].tests_run = 0

\* C20: the report methods called again on the same recorded results return
\* the same report, and a call leaves the recorded results as they were.
C20_ReportIdempotent ==
    /\ [](\A j, k \in 1..Len(reports) : reports[j] = reports[k])
    /\ [][reports' # reports => UNCHANGED <<test_results, results>>]_vars

\* generate_report has been called twice on results in which two strategies
\* have the same greatest success rate
C20_Witness ==
    /\ pc = "idle"
    /\ Len(reports) = 2
    /\ Cardinality(BestStrategies(test_results)) = 2

----------------------------------------------------------------------------
(* Properties of the recorded attempts *)

\* the uuids that the text msg carries
Markers(msg) == {msg[c][4] : c \in {d \in 1..Len(msg) : Len(msg[d]) = 4}}

\* C21: the message of every recorded attempt contains the test_id that is
\* recorded with it.
C21_PayloadContainsId ==
    \A k \in 1..Len(test_results) :
        test_results[k].test_id \in Markers(test_results[k].message_sent)

\* the attempt that has just returned ended by the polling loop running out
TimedOut == ~ret.success /\ polls = NumPolls

\* C22: an error text is recorded only for an attempt that a raising driver
\* call of the strategy ended: such an attempt is not delivered, and an
\* attempt that was delivered or that timed out has the empty error text.
C22_ErrorOnlyOnErrored ==
    /\ \A k \in 1..Len(test_results) :
          test_results[k].error # "" => ~test_results[k].success
    /\ pc = "returned" =>
          /\ ret.error # "" =>
                /\ ~ret.success
                /\ polls = 0
                /\ sendLog[Len(sendLog)].rc = "timeout"
          /\ (ret.success \/ TimedOut) => ret.error = ""

\* an attempt has timed out after an earlier attempt was recorded with an
\* error
C22_Witness ==
    /\ pc = "returned"
    /\ TimedOut
    /\ \E k \in 1..Len(test_results) : test_results[k].error # ""

----------------------------------------------------------------------------
(* Properties of the scenario results *)

\* C23: the error list stored in every scenario result holds the first
\* KeepErrors failures of the scenario in the order they happened, and no
\* more than KeepErrors of them.
C23_StoredErrorsBounded ==
    \A k \in 1..Len(results) :
        LET r == results[k] IN
        /\ Len(r.errors) = Min(r.failed_messages, KeepErrors)
        /\ \A a, b \in 1..Len(r.errors) : a < b => r.errors[a].index < r.errors[b].index

\* the time the single-lane scenario that ran last has spent inside its
\* calls of send_message_with_strategy: the time of its loop without the
\* time.sleep that follows every message
AttemptTime == total_time - i * Pause(test_name)

\* C24: the avg_response_time recorded for a single-lane scenario is the
\* time spent in its attempts divided by the number of attempts; the pauses
\* between the attempts are not part of it.
C24_AvgLatencyOfAttemptsOnly ==
    (/\ pc = "main"
     /\ results # <<>>
     /\ test_name \in {"rapid_fire", "long_messages"}) =>
        results[Len(results)].avg_response_time = Fraction(AttemptTime, num_messages)

----------------------------------------------------------------------------
(* Properties of the large-message run *)

\* the names of a strategies list, lines 211-217
ListedNames(list) == [k \in 1..Len(list) |-> list[k].name]

\* the strategy that ran last has returned and every driver call it made
\* succeeded, the capture included
ReturnedClean ==
    /\ pc = "l_main"
    /\ strategy # NoStrategy
    /\ strategy.name \in DOMAIN results
    /\ sendLog # <<>>
    /\ \A k \in 1..Len(sendLog) : sendLog[k].rc = "ok"
    /\ sendLog[Len(sendLog)].op = "capture-pane"

\* C25: a run that gets past the responsiveness check calls every strategy of
\* the list once, in the order of the list, and records one outcome for each
\* whatever the earlier ones were; and a strategy whose driver calls all
\* succeeded while its capture does not show the message is recorded as not
\* delivered.
C25_UnobservedPayloadNotDelivered ==
    /\ pc = "l_done" /\ Len(invoked) = Len(LargeStrategies(ChunkA, ChunkB))
          => /\ invoked = ListedNames(LargeStrategies(ChunkA, ChunkB))
             /\ DOMAIN results = {invoked[k] : k \in 1..Len(invoked)}
    /\ ReturnedClean /\ ~Contains(ret.stdout, test_message)
          => ~results[strategy.name].success


\* the texts of a list of chunks, one after the other
RECURSIVE Joined(_)
Joined(chunks) == IF chunks = <<>> THEN <<>> ELSE Head(chunks) \o Joined(Tail(chunks))

\* the calls of the running strategy that typed text, and those that pressed
\* a key, as positions of sendLog
TextCalls == {k \in 1..Len(sendLog) : sendLog[k].op = "send-keys" /\ sendLog[k].text # <<>>}
KeyCalls == {k \in 1..Len(sendLog) : sendLog[k].op = "send-keys" /\ sendLog[k].keys # <<>>}

\* strategy_chunked_sending is running, or was the last strategy to run,
\* with a chunk size of at least 1
ChunkedRun == strategy.kind = "chunked" /\ strategy.chunk_size >= 1

\* C27: chunked sending preserves the message. The chunks of the message,
\* joined, are the message; every chunk is non-empty and no longer than
\* chunk_size, and all but the last are exactly chunk_size long; the calls
\* that type text send the chunks one by one in the order of the offsets;
\* Enter is pressed only after the last chunk, never twice, and exactly once
\* when the strategy returns without a failed call.
C27_ChunkedPreservesPayload ==
    ChunkedRun =>
        LET chunks == Chunks(test_message, strategy.chunk_size) IN
        /\ Joined(chunks) = test_message
        /\ \A k \in 1..Len(chunks) :
              /\ Len(chunks[k]) >= 1
              /\ Len(chunks[k]) <= strategy.chunk_size
              /\ k < Len(chunks) => Len(chunks[k]) = strategy.chunk_size
        /\ Cardinality(TextCalls) <= Len(chunks)
        /\ \A k \in TextCalls :
              /\ sendLog[k].keys = <<>>
              /\ sendLog[k].text = chunks[Cardinality({j \in TextCalls : j <= k})]
        /\ Cardinality(KeyCalls) <= 1
        /\ \A k \in KeyCalls :
              /\ sendLog[k].keys = <<"Enter">>
              /\ Cardinality(TextCalls) = Len(chunks)
              /\ \A j \in TextCalls : j < k
        /\ ReturnedClean => Cardinality(KeyCalls) = 1

\* a message of three characters was sent in chunks of two, the last chunk
\* being shorter, and the strategy returned
C27_Witness ==
    /\ ChunkedRun
    /\ ReturnedClean
    /\ Len(Chunks(test_message, strategy.chunk_size)) = 2
    /\ Len(Chunks(test_message, strategy.chunk_size)[2]) < strategy.chunk_size
    /\ Cardinality(TextCalls) = 2


----------------------------------------------------------------------------
(* Properties of the burst scenario *)

\* the target has been responsive and prompt so far: the session is up, no
\* driver call was slow, timed out or lost its text, and the target printed
\* nothing of its own
Undisturbed == sessionUp /\ faultsLeft = MaxStressFaults /\ pending = <<>>

\* the result of a burst of single_enter sends
IsBurst(r) == r.test_name = <<"rapid_fire", "single_enter">>

\* C26: while the target is undisturbed, no send of a single_enter burst is
\* counted as failed, and a recorded burst of N >= 1 messages has
\* successful_messages = N and success_rate = 100.
C26_IdealBurstAllDelivered ==
    Undisturbed =>
        /\ test_name = "rapid_fire" /\ strategy = "single_enter"
              /\ pc \in {"s_loop", "s_send", "s_verify"}
              => failed = 0 /\ successful = i
        /\ \A k \in 1..Len(results) :
              IsBurst(results[k]) /\ results[k].total_messages >= 1
              => /\ results[k].successful_messages = results[k].total_messages
                 /\ results[k].failed_messages = 0
                 /\ results[k].success_rate.num = 100 * results[k].success_rate.den

\* an undisturbed burst of MaxMessages messages has been recorded
C26_Witness ==
    /\ Undisturbed
    /\ \E k \in 1..Len(results) :
          IsBurst(results[k]) /\ results[k].total_messages = MaxMessages


----------------------------------------------------------------------------
(* Properties of the strategies *)

\* the keys that submit the typed line
SubmitKeys == {"Enter", "C-m"}

\* the running strategy has made all its driver calls: send_test_message is
\* at its polling loop, send_message_with_strategy at its capture
StrategyCompleted == pc \in {"poll", "s_verify"}

\* the message the running strategy was called with
Payload == IF pc = "s_verify" THEN message ELSE test_message

\* the text call e of sendLog hands to the target: the text argument of
\* send-keys, the buffer for paste-buffer
SentText(e) ==
    CASE e.op = "send-keys"    -> e.text
      [] e.op = "paste-buffer" -> buffer
      [] OTHER                 -> <<>>

\* the calls of sendLog that hand the payload to the target
PayloadCalls == {k \in 1..Len(sendLog) : SentText(sendLog[k]) = Payload}

\* the number of submit keys in the calls 1..n of sendLog
RECURSIVE SubmitCount(_)
SubmitCount(n) ==
    IF n = 0 THEN 0
    ELSE SubmitCount(n - 1)
           + Cardinality({j \in 1..Len(sendLog[n].keys) : sendLog[n].keys[j] \in SubmitKeys})

\* the number of submit keys of each strategy of the registry
Submits(name) ==
    CASE name \in {"single_enter", "separate_commands", "c_return", "paste_mode"} -> 1
      [] name \in {"double_enter", "enter_delay_enter"} -> 2
      [] name = "triple_enter" -> 3

\* C28: a strategy of the registry that has made all its calls has handed
\* the payload to the target exactly once, with no submit key before it, and
\* has sent 1, 2 or 3 submit keys according to its name; enter_delay_enter
\* and separate_commands send their last submit key in a call of its own,
\* made after the call with the text. The four strategies of
\* send_message_with_strategy make the calls of the registry strategies of
\* the same name.
C28_TextOnceThenSubmits ==
    /\ \A name \in {"single_enter", "double_enter", "enter_delay_enter", "separate_commands"} :
          StressImplementation(name, Payload) = Implementation(name, Payload)
    /\ StrategyCompleted /\ strategy \in Registry =>
          /\ Cardinality(PayloadCalls) = 1
          /\ \A k \in PayloadCalls : SubmitCount(k - 1) = 0
          /\ SubmitCount(Len(sendLog)) = Submits(strategy)
          /\ strategy \in {"enter_delay_enter", "separate_commands"} =>
                /\ sendLog[Len(sendLog)].text = <<>>
                /\ sendLog[Len(sendLog)].keys = <<"Enter">>
                /\ \A k \in PayloadCalls : k < Len(sendLog)

\* enter_delay_enter has made its two calls, the second one the bare Enter
C28_Witness ==
    /\ StrategyCompleted
    /\ strategy = "enter_delay_enter"
    /\ Len(sendLog) = 2
    /\ SubmitCount(2) = 2


\* C29: the steps of a strategy, its driver calls and its sleeps, leave the
\* state of the harness as it was: the recorded results of the tester and of
\* the stress tester, the reports, the strategy and its message, the loop
\* counter and the baseline are the same before and after each step.
C29_StrategyLeavesHarnessUnchanged ==
    [][StrategyCall \/ StrategySleep
         => UNCHANGED <<test_results, strategy, iterations, i, test_message,
                        baseline_output, polls, captures, stressVars, mainVars>>]_vars

\* a strategy has made a driver call while results of earlier attempts were
\* recorded
C29_Witness ==
    /\ pc \in {"strategy", "poll"}
    /\ sendLog # <<>>
    /\ test_results # <<>>


----------------------------------------------------------------------------
(* Properties of the order of an attempt *)

\* the number of driver calls of an implementation, its sleeps left out
DriverCalls(impl) == Cardinality({k \in 1..Len(impl) : impl[k].op # "sleep"})

\* C30: in every attempt the baseline is captured, then the strategy makes
\* its driver calls, then the polling loop captures. The strategy starts
\* only by the step that captures the baseline, with no call and no poll
\* made yet; a driver call of the strategy is made only while the strategy
\* runs; and a poll captures only when the strategy has made every one of
\* its calls, and makes no call of the strategy itself.
C30_BaselineSendPolls ==
    [][/\ pc' = "strategy" /\ pc # "strategy"
            => /\ pc = "call"
               /\ \E o \in CallOutcomes(CapturePane) : baseline_output' = capture_tmux_output(o)
               /\ sendLog' = <<>>
               /\ captures' = 0
       /\ sendLog' # sendLog /\ sendLog' # <<>>
            => /\ pc = "strategy"
               /\ captures = 0 /\ captures' = 0
               /\ Len(sendLog') = Len(sendLog) + 1
       /\ captures' # captures /\ captures' # 0
            => /\ pc = "poll"
               /\ sendLog' = sendLog
               /\ Len(sendLog) = DriverCalls(Implementation(strategy, test_message))
               /\ \A k \in 1..Len(sendLog) : sendLog[k].rc # "timeout"
      ]_vars

\* the polling loop has captured after a strategy of more than one call
C30_Witness ==
    /\ pc = "poll"
    /\ captures >= 1
    /\ Len(sendLog) >= 2


\* C32: the success a strategy of the large-message tester reports is the
\* outcome of the check of its capture: the entry of results of a strategy
\* that returned after its capture has success, and the status PASS, exactly
\* when the local variable success of the strategy is True.
C32_ReportedSuccessIsVerified ==
    ReturnedClean =>
        /\ results[strategy.name].success = ret.success
        /\ results[strategy.name].status = "PASS" <=> ret.success


----------------------------------------------------------------------------
(* Properties of the polling loop *)

\* C36: the polling loop of an attempt ends. It has captured once per
\* iteration and never more than NumPolls times; while it still runs it has
\* iterations left, its next capture can be made, and no capture so far
\* showed the message in an output other than the baseline; and when
\* send_test_message has returned, the result it built is the one of this
\* attempt.
C36_PollerTerminates ==
    /\ pc \in {"strategy", "poll", "returned"} =>
          /\ captures = polls
          /\ captures <= NumPolls
    /\ pc = "poll" =>
          /\ polls < NumPolls
          /\ ~goodPoll
          /\ ENABLED Poll
    /\ pc = "returned" =>
          /\ ret.message_sent = test_message
          /\ ret.strategy_name = strategy
          /\ goodPoll \/ polls = NumPolls \/ ret.error # ""

\* the loop has run all its iterations without seeing the message and the
\* attempt has returned
C36_Witness ==
    /\ pc = "returned"
    /\ captures = NumPolls
    /\ ~goodPoll
    /\ ~ret.success


----------------------------------------------------------------------------
(* Properties of send_message_with_strategy *)

\* send_message_with_strategy has returned to the loop that called it
SendReturned == pc = "s_loop" /\ resolved = 1

\* C38: send_message_with_strategy called with a strategy name that is none
\* of its four sends nothing to the session and raises nothing; it goes
\* straight to its capture, which it can always make; and what it returns is
\* whether the captured pane contains the message, False when the capture
\* itself failed.
C38_UnknownStrategySendsNothing ==
    /\ [](strategy \notin KnownStrategies =>
            /\ sendLog = <<>> /\ typed = {} /\ pending = <<>>
            /\ pc \in {"s_verify", "s_loop"}
            /\ exc = ""
            /\ pc = "s_verify" => ENABLED StressVerify
            /\ pc = "s_loop" => resolved = 1 /\ successful + failed = 1)
    /\ [][strategy \notin KnownStrategies /\ StressVerify =>
            /\ received' => Contains(pane, message)
            /\ (Contains(pane, message) /\ faultsLeft' = faultsLeft) => received'
            /\ pane' = pane]_vars

\* the call with the unknown name has returned True: the message was in the
\* pane already
C38_Witness ==
    /\ strategy \notin KnownStrategies
    /\ SendReturned
    /\ received
    /\ sendLog = <<>>


----------------------------------------------------------------------------
(* Properties of the counts *)

\* the messages of the recorded scenarios, one pair for each message counted
\* in the field of a result
Counted(rs, field) == UNION {{k} \X (1..rs[k][field]) : k \in 1..Len(rs)}

\* C34: the counts are conserved. In every recorded scenario result
\* successful_messages + failed_messages = total_messages with
\* 0 <= successful_messages <= total_messages; while a scenario loop runs,
\* the messages it has counted are the messages it has sent; and the run
\* report has total_messages and total_successful equal to the sums over the
\* recorded results and tests_run equal to their number.
C34_CountConservation ==
    /\ \A k \in 1..Len(results) :
          /\ results[k].successful_messages + results[k].failed_messages
                = results[k].total_messages
          /\ results[k].successful_messages >= 0
          /\ results[k].successful_messages <= results[k].total_messages
    /\ pc \in {"s_loop", "s_send", "s_verify"} => successful + failed = i
    /\ pc = "reported" =>
          /\ report.total_messages = Cardinality(Counted(results, "total_messages"))
          /\ report.total_successful = Cardinality(Counted(results, "successful_messages"))
          /\ report.tests_run = Len(results)

\* the report of a run that recorded a scenario with a failed message and a
\* concurrent scenario
C34_Witness ==
    /\ pc = "reported"
    /\ Len(results) >= 2
    /\ \E k \in 1..Len(results) : results[k].failed_messages >= 1
    /\ \E k \in 1..Len(results) : results[k].test_name = <<"concurrent_sending">>


----------------------------------------------------------------------------
(* Properties of the lanes *)

\* lane t has appended one outcome to its own list and nothing else of it
\* was rewritten
LaneAppended(t) ==
    /\ Len(futures'[t].results) \in {Len(futures[t].results), Len(futures[t].results) + 1}
    /\ \A k \in 1..Len(futures[t].results) : futures'[t].results[k] = futures[t].results[k]
    /\ futures'[t].thread_id = futures[t].thread_id

\* C35: the lanes of the concurrent scenario write no shared result state.
\* While the lanes run, a step changes the list of at most one lane, by
\* appending to it, and leaves the recorded results and the counters of the
\* tester as they were; the lanes are the threads 0, 1, ... in the order of
\* their submission; and the coordinating thread merges the lists in that
\* order, all outcomes of a lane in the order they were appended, whichever
\* lane finished first.
C35_LanesWriteOnlyLocalState ==
    [][/\ pc = "c_wait" /\ pc' = "c_wait" =>
             /\ UNCHANGED <<results, successful, failed, errors, total_time, report,
                            test_results, messages_per_thread>>
             /\ Len(futures') = Len(futures)
             /\ \A t \in 1..Len(futures) : futures'[t] # futures[t] =>
                   /\ LaneAppended(t)
                   /\ \A u \in 1..Len(futures) : u # t => futures'[u] = futures[u]
       /\ pc = "c_wait" /\ pc' = "main" =>
             LET thread_results == Extend(futures) IN
             /\ \A t \in 1..Len(futures) :
                   /\ futures[t].thread_id = t - 1
                   /\ \A k \in 1..messages_per_thread :
                         thread_results[(t - 1) * messages_per_thread + k]
                            = futures[t].results[k]
             /\ results'[Len(results')].successful_messages
                   = Cardinality({<<t, k>> \in (1..Len(futures)) \X (1..messages_per_thread) :
                                     futures[t].results[k]})
      ]_vars

\* the second lane has returned while the first is still sending, and their
\* outcomes differ
C35_Witness ==
    /\ pc = "c_wait"
    /\ Len(futures) = 2
    /\ LaneDone(futures[2])
    /\ ~LaneDone(futures[1])
    /\ messages_per_thread >= 1
    /\ futures[1].results # <<>>
    /\ futures[2].results[1] # futures[1].results[1]


----------------------------------------------------------------------------
(* Properties of the recorded lists *)

\* list b is list a with entries added at its end
Extends(a, b) == Len(b) >= Len(a) /\ \A k \in 1..Len(a) : b[k] = a[k]

\* C33: the recorded results are append-only. No step of either program, a
\* further attempt, another scenario or the generation of the report,
\* changes, removes or moves an entry of test_results or of results that
\* was recorded before it; a step only adds entries at the end, one at a time.
C33_ResultsAppendOnly ==
    [][/\ Extends(test_results, test_results')
       /\ Extends(results, results')
       /\ Len(test_results') <= Len(test_results) + 1
       /\ Len(results') <= Len(results) + 1]_vars

\* a report has been generated after two results had been recorded
C33_Witness ==
    \/ pc = "reported" /\ Len(results) >= 2 /\ report # NoReport
    \/ pc = "saved" /\ Len(test_results) >= 2


----------------------------------------------------------------------------
(* Properties of the busy and the load scenario *)

\* busy_claude_test is running
InBusy == test_name = "busy_claude" /\ pc \in {"b_send", "b_verify", "s_loop", "s_send", "s_verify"}

\* the place of the busy task of the running scenario among the messages sent
BusyAt ==
    IF \E b \in 1..Len(invoked) : invoked[b] = BusyTask(Len(results))
    THEN CHOOSE b \in 1..Len(invoked) : invoked[b] = BusyTask(Len(results))
    ELSE 0

\* the small messages the running scenario has passed to a send so far
SmallSent == Len(invoked) - BusyAt

\* C31: in busy_claude_test the busy task is sent first and its send and
\* capture are over before a small message is sent; the small messages are
\* then sent in the order of their indexes, each after the one before it
\* was counted; and the recorded result counts the N small messages only.
C31_BusyTaskFirst ==
    /\ [](InBusy =>
            /\ BusyAt > 0
            /\ \A k \in (BusyAt + 1)..Len(invoked) :
                  invoked[k] = StressMessage("busy_claude", k - BusyAt - 1, Len(results))
            /\ pc \in {"b_send", "b_verify"} => SmallSent = 0 /\ message = BusyTask(Len(results))
            /\ pc = "s_loop" => SmallSent = i /\ successful + failed = i
            /\ pc \in {"s_send", "s_verify"} => SmallSent = i + 1 /\ successful + failed = i
            /\ pc \in {"s_loop", "s_send", "s_verify"} => strategy = "double_enter")
    /\ [][InBusy /\ pc' = "main" =>
            LET r == results'[Len(results')] IN
            /\ r.test_name = <<"busy_claude">>
            /\ r.total_messages = num_messages
            /\ r.successful_messages + r.failed_messages = num_messages
            /\ SmallSent = num_messages]_vars

\* busy_claude_test has recorded a result of MaxMessages messages, one of
\* them not received
C31_Witness ==
    \E k \in 1..Len(results) :
        /\ results[k].test_name = <<"busy_claude">>
        /\ results[k].total_messages = MaxMessages
        /\ results[k].failed_messages = 1


\* cpu_load, started with system_load_test, is running: LoadDuration has not
\* passed since the scenario took its start_time
LoadRunning == test_name = "system_load" /\ total_time < LoadDuration

\* system_load_test is in its loop
InLoad == test_name = "system_load" /\ pc \in {"s_loop", "s_send", "s_verify"}

\* the messages of the running load scenario passed to a send so far
LoadSent ==
    Cardinality({k \in 1..Len(invoked) :
                    \E n \in 0..(LoadMessages - 1) :
                        invoked[k] = StressMessage("system_load", n, Len(results))})

\* C37: system_load_test records its result only when cpu_load has ended,
\* that is with a total_time of LoadDuration or more; it sends its messages
\* one after the other, each after the one before it was counted; and every
\* message is sent while cpu_load is running.
C37_LoadScenarioUnderLoad ==
    /\ \A k \in 1..Len(results) :
          results[k].test_name = <<"system_load">>
             => results[k].avg_response_time.num >= LoadDuration
    /\ InLoad /\ pc = "s_loop" => LoadSent = i
    /\ InLoad /\ pc \in {"s_send", "s_verify"} => LoadSent = i + 1
    /\ InLoad /\ pc = "s_send" /\ sendLog = <<>> => LoadRunning

====
